---- MODULE Spec2Model ----
(***************************************************************************)
(* Workflow orchestration and streaming reconciliation of repuragent:      *)
(* the routing/approval state machine (core/supervisor/supervisor.py),     *)
(* the stream runner (app/langgraph_runner.py), the two UI front ends      *)
(* (app/gradio_app.py, app/streamlit_app.py) and the streaming             *)
(* demultiplexer (app/ui/formatters.py).                                   *)
(*                                                                         *)
(* Text is modelled as a sequence of one-character strings, so that        *)
(* lower-casing, stripping and substring search are computed, not assumed. *)
(***************************************************************************)
EXTENDS Integers, Sequences, FiniteSets, TLC

(***************************************************************************)
(* Text primitives (Python str.lower, str.strip, the `in` operator).       *)
(***************************************************************************)
UpperAlpha ==
    <<"A", "B", "C", "D", "E", "F", "G", "H", "I", "J", "K", "L", "M",
      "N", "O", "P", "Q", "R", "S", "T", "U", "V", "W", "X", "Y", "Z">>

LowerAlpha ==
    <<"a", "b", "c", "d", "e", "f", "g", "h", "i", "j", "k", "l", "m",
      "n", "o", "p", "q", "r", "s", "t", "u", "v", "w", "x", "y", "z">>

Whitespace == {" ", "\n", "\t"}

LowerChar(c) ==
    IF \E i \in 1..Len(UpperAlpha) : UpperAlpha[i] = c
    THEN LowerAlpha[CHOOSE i \in 1..Len(UpperAlpha) : UpperAlpha[i] = c]
    ELSE c

\* str.lower()
LowerText(s) == [i \in 1..Len(s) |-> LowerChar(s[i])]

\* str.strip(): drop leading and trailing whitespace
Strip(s) ==
    LET keep == {i \in 1..Len(s) : s[i] \notin Whitespace}
    IN  IF keep = {} THEN <<>>
        ELSE LET lo == CHOOSE i \in keep : \A j \in keep : i <= j
                 hi == CHOOSE i \in keep : \A j \in keep : i >= j
             IN  SubSeq(s, lo, hi)

\* `sub in s` for Python strings
Contains(sub, s) ==
    \E i \in 0..(Len(s) - Len(sub)) : SubSeq(s, i + 1, i + Len(sub)) = sub

\* Python truthiness of a string
Truthy(s) == Len(s) > 0

(***************************************************************************)
(* Texts used as inputs.                                                   *)
(***************************************************************************)
TxtBuildModel == <<"b", "u", "i", "l", "d", " ", "a", " ", "m", "o", "d", "e", "l">>
TxtLooksGood == <<"l", "o", "o", "k", "s", " ", "g", "o", "o", "d", ",", " ", "p", "r", "o", "c", "e", "e", "d">>
TxtAlsoTox == <<"a", "c", "t", "u", "a", "l", "l", "y", " ", "a", "l", "s", "o", " ", "c", "h", "e", "c", "k", " ", "t", "o", "x", "i", "c", "i", "t", "y">>
TxtExecuteScreen == <<"e", "x", "e", "c", "u", "t", "e", " ", "a", " ", "s", "c", "r", "e", "e", "n">>
TxtApproved == <<"a", "p", "p", "r", "o", "v", "e", "d">>
TxtApprovedCap == <<"A", "p", "p", "r", "o", "v", "e", "d">>
TxtApprovedUpper == <<"A", "P", "P", "R", "O", "V", "E", "D">>
TxtApprovedPadded == <<" ", "a", "p", "p", "r", "o", "v", "e", "d", " ">>
TxtNotGoodEnough == <<"n", "o", "t", " ", "g", "o", "o", "d", " ", "e", "n", "o", "u", "g", "h">>
TxtOkUpper == <<"O", "K">>
TxtBlank == <<" ">>
TxtPlan == <<"p", "l", "a", "n">>

(***************************************************************************)
(* Messages: type is "human", "ai" or "tool"; name is the emitting agent   *)
(* ("" for human messages); content is a text.                             *)
(***************************************************************************)
HumanMessage(text) == [type |-> "human", name |-> "", content |-> text]

AIMessage(agent, text) == [type |-> "ai", name |-> agent, content |-> text]

(***************************************************************************)
(* core/supervisor/supervisor.py                                           *)
(***************************************************************************)
approval_terms ==
    << <<"a", "p", "p", "r", "o", "v", "e", "d">>,
       <<"a", "p", "p", "r", "o", "v", "e">>,
       <<"l", "o", "o", "k", "s", " ", "g", "o", "o", "d">>,
       <<"s", "e", "n", "d", " ", "t", "o", " ", "s", "u", "p", "e", "r", "v", "i", "s", "o", "r">>,
       <<"p", "r", "o", "c", "e", "e", "d">>,
       <<"g", "o", " ", "a", "h", "e", "a", "d">>,
       <<"e", "x", "e", "c", "u", "t", "e">>,
       <<"o", "k">>,
       <<"g", "o", "o", "d">>,
       <<"y", "e", "s">> >>

\* the human_messages list built by route_from_planning: the contents of the
\* human messages whose content is truthy, in chronological order
human_messages(messages) ==
    LET IsHuman(m) == m.type = "human" /\ Truthy(m.content)
        hs == SelectSeq(messages, IsHuman)
    IN  [i \in 1..Len(hs) |-> hs[i].content]

\* mutant: the original request is not excluded
route_from_planning_no_first_guard(state) ==
    LET hm == human_messages(state.messages)
    IN  IF Len(hm) < 1 THEN "human_chat"
        ELSE LET content_lower == Strip(LowerText(hm[Len(hm)]))
             IN  IF \E k \in 1..Len(approval_terms) :
                        Contains(approval_terms[k], content_lower)
                 THEN "supervisor"
                 ELSE "human_chat"

\* mutant: every feedback message is searched, not only the most recent
route_from_planning_any_feedback(state) ==
    LET hm == human_messages(state.messages)
    IN  IF Len(hm) <= 1 THEN "human_chat"
        ELSE IF \E j \in 2..Len(hm) : \E k \in 1..Len(approval_terms) :
                    Contains(approval_terms[k], Strip(LowerText(hm[j])))
             THEN "supervisor"
             ELSE "human_chat"

route_from_planning(state) ==
    LET hm == human_messages(state.messages)
    IN  IF Len(hm) <= 1 THEN "human_chat"
        ELSE LET most_recent_feedback == hm[Len(hm)]
                 content_lower == Strip(LowerText(most_recent_feedback))
             IN  IF \E k \in 1..Len(approval_terms) :
                        Contains(approval_terms[k], content_lower)
                 THEN "supervisor"
                 ELSE "human_chat"


\* _latest_user_text: the content of the most recent human message, "" if none
_latest_user_text(state) ==
    LET msgs == state.messages
        idx == {i \in 1..Len(msgs) : msgs[i].type = "human"}
    IN  IF idx = {} THEN <<>>
        ELSE msgs[CHOOSE i \in idx : \A j \in idx : i >= j].content

\* str.startswith
StartsWith(s, prefix) ==
    Len(s) >= Len(prefix) /\ SubSeq(s, 1, Len(prefix)) = prefix

\* a variant of route_from_start that looks for "skip" anywhere in the answer
route_from_start_anywhere(state, out) ==
    LET user_text == _latest_user_text(state)
        out_text == LowerText(Strip(out))
    IN  IF ~Truthy(user_text) THEN "plan"
        ELSE IF Contains(<<"s", "k", "i", "p">>, out_text) THEN "skip"
        ELSE "plan"

\* route_from_start; out is the routing classifier's raw answer
route_from_start(state, out) ==
    LET user_text == _latest_user_text(state)
        out_text == LowerText(Strip(out))
    IN  IF ~Truthy(user_text) THEN "plan"
        ELSE IF StartsWith(out_text, <<"s", "k", "i", "p">>) THEN "skip"
        ELSE "plan"

\* the planning output human_chat_node extracts: the content of the latest
\* message named planning_agent, "" if there is none
planning_output(state) ==
    LET msgs == state.messages
        idx == {i \in 1..Len(msgs) : msgs[i].name = "planning_agent"}
    IN  IF idx = {} THEN <<>>
        ELSE msgs[CHOOSE i \in idx : \A j \in idx : i >= j].content

\* mutant: the resume input is compared with the token as typed
human_chat_node_exact(state, human_input) ==
    IF Truthy(human_input) /\ human_input = TxtApproved
    THEN [messages |-> state.messages, plan_approved |-> TRUE]
    ELSE [messages |-> IF Truthy(human_input)
                       THEN Append(state.messages, HumanMessage(human_input))
                       ELSE state.messages,
          plan_approved |-> FALSE]

\* human_chat_node after interrupt() has returned human_input: the state update
\* it returns, applied to the state (messages are merged by id, so returning
\* the extended list appends the new human message)
human_chat_node(state, human_input) ==
    IF Truthy(human_input) /\ Strip(LowerText(human_input)) = TxtApproved
    THEN [messages |-> state.messages, plan_approved |-> TRUE]
    ELSE [messages |-> IF Truthy(human_input)
                       THEN Append(state.messages, HumanMessage(human_input))
                       ELSE state.messages,
          plan_approved |-> FALSE]

\* the graph built by create_app: the node that follows `node`
\* (conditional edges are resolved by the routers above)
\* a variant of StaticEdge that keeps the edge from report_agent back to the
\* supervisor
StaticEdge_report_back(node) ==
    CASE node = "human_chat" -> "planning_agent"
      [] node \in {"research_agent", "prediction_agent", "data_agent", "report_agent"}
             -> "supervisor"

\* mutant: the sub-agents hand back to the planner
StaticEdge_replan(node) ==
    CASE node = "human_chat" -> "planning_agent"
      [] node = "report_agent" -> "none"
      [] node \in {"research_agent", "prediction_agent", "data_agent"} -> "planning_agent"

StaticEdge(node) ==
    CASE node = "human_chat" -> "planning_agent"
      [] node = "report_agent" -> "none"
      [] node \in {"research_agent", "prediction_agent", "data_agent"} -> "supervisor"

PlanningEdge(state) == route_from_planning(state)

StartEdge(state, out) ==
    IF route_from_start(state, out) = "plan" THEN "planning_agent" ELSE "supervisor"

(***************************************************************************)
(* app/langgraph_runner.py, app/streamlit_app.py: interrupt detection      *)
(***************************************************************************)
KwNodeInterrupt == <<"n", "o", "d", "e", "i", "n", "t", "e", "r", "r", "u", "p", "t">>
KwInterrupt == <<"i", "n", "t", "e", "r", "r", "u", "p", "t">>
KwInterrupted == <<"i", "n", "t", "e", "r", "r", "u", "p", "t", "e", "d">>
KwHumanInput == <<"h", "u", "m", "a", "n", " ", "i", "n", "p", "u", "t", " ", "r", "e", "q", "u", "i", "r", "e", "d">>

\* mutant: the exception message is not lower-cased before the search
_is_interrupt_exception_case_sensitive(exc) ==
    \E keyword \in {KwNodeInterrupt, KwInterrupt, KwInterrupted, KwHumanInput} :
        Contains(keyword, exc)

_is_interrupt_exception(exc) ==
    LET message == LowerText(exc)
    IN  \E keyword \in {KwNodeInterrupt, KwInterrupt, KwInterrupted, KwHumanInput} :
            Contains(keyword, message)

\* the `interrupted` flag computed when the stream is exhausted: read_ok is
\* whether get_state succeeded, next the pending node of the latest checkpoint
StreamInterrupted(check_for_interrupts, read_ok, next) ==
    check_for_interrupts /\ read_ok /\ next = "human_chat"

\* messages of exceptions the underlying execution may raise
ExcGraphInterrupt == <<"G", "r", "a", "p", "h", "I", "n", "t", "e", "r", "r", "u", "p", "t">>
ExcHumanInput == <<"H", "u", "m", "a", "n", " ", "i", "n", "p", "u", "t", " ", "r", "e", "q", "u", "i", "r", "e", "d">>
ExcConnInterrupted == <<"s", "t", "r", "e", "a", "m", " ", "I", "n", "t", "e", "r", "r", "u", "p", "t", "e", "d">>
ExcToolFailed == <<"t", "o", "o", "l", " ", "f", "a", "i", "l", "e", "d">>


(***************************************************************************)
(* Bounds of the model.                                                    *)
(***************************************************************************)
MaxThreads == 2          \* thread ids that can ever be generated
MaxTurns == 2            \* user submissions in one UI session (Spec)
MaxRunTurns == 1         \* user submissions in one UI session (SpecRun)
MaxDelegations == 1      \* sub-agent hand-offs of the supervisor in one run

ThreadIds == 1..MaxThreads

\* what a user may type into the chat box
Prompts == {TxtBuildModel, TxtExecuteScreen, TxtApproved}

\* raw answers of the routing classifier
ClassifierAnswers == {<<"s", "k", "i", "p">>, <<"p", "l", "a", "n">>, <<" ", "S", "k", "i", "p", ".">>}

\* messages of the exceptions an agent node may raise
AgentExceptions == {ExcHumanInput, ExcToolFailed}

SubAgents == {"research_agent", "prediction_agent", "data_agent"}

Digits == <<"1", "2", "3", "4", "5", "6", "7", "8", "9">>

(***************************************************************************)
(* State.                                                                  *)
(*  env          the deployment: whether the graph library lets the        *)
(*               interrupt escape the stream as an exception, and whether  *)
(*               reading the graph state after a run may fail              *)
(*  ui           which front end the session runs ("gradio", "streamlit")  *)
(*  registry     thread_ids.json: the thread ids in insertion order        *)
(*  next_thread  source of fresh thread ids (uuid4)                        *)
(*  checkpoints  latest checkpoint of every thread id: messages,           *)
(*               plan_approved, next (pending node, "none" if nothing is   *)
(*               pending) and the plan_review payload of a pending         *)
(*               interrupt                                                 *)
(*  session      the UI session state                                      *)
(*  run          the graph run in flight or last finished: its phase,      *)
(*               thread, calling path (kind), check_for_interrupts, the    *)
(*               resume value and whether interrupt() has returned it,     *)
(*               the exception raised, whether an error reached the        *)
(*               caller, and the node pending when the stream ended        *)
(*  events       the events the stream of that run has yielded             *)
(*  hist         per thread, what has happened in its current turn         *)
(*  turns        submissions made so far                                   *)
(*  turn_limit   submissions the session makes at most                     *)
(***************************************************************************)
VARIABLES env, ui, turn_limit, registry, next_thread, checkpoints, session, run,
          events, hist, turns

\* inputs and result of a pure function under test: fn names the function,
\* arg its arguments, result its result ("unset" before it is applied)
VARIABLES fn, arg, result

pureVars == <<fn, arg, result>>

\* the demultiplexer under repeated calls: the dedup tracker the caller keeps,
\* the outputs of the latest call, the chunk followed through the calls, the
\* outputs of its first call, the number of calls made and whether the latest
\* call fed a chunk that had been fed before
VARIABLES tracker, emitted, probe, probe_first, calls, repeat

\* the display as the calls have built it: the messages rendered so far, in
\* order, and the messages that were not rendered although their identifier
\* was new and no rendered message had their content
VARIABLES shown, dropped

\* a thread across sessions: the messages of its latest checkpoint, and how
\* the session holding the tracker last came to the thread
VARIABLES history, loaded

demuxVars == <<tracker, emitted, probe, probe_first, calls, repeat, shown, dropped,
               history, loaded>>

\* front-end sessions side by side: for each session its selected thread, the
\* listener its pending event came through, and whether that event is idle,
\* waiting in the Gradio queue, or running a turn
VARIABLES flights

\* the thread registry and the checkpoint database under the operations of
\* thread_manager.py issued by two front-end sessions: the content of
\* thread_ids.json, the thread ids with rows in the database, each session's
\* operation in progress with its local copies, and a record of the thread
\* ids whose creation has completed, whose deletion has begun and whose
\* deletion has completed
VARIABLES file, rows, clients, made, unmaking, unmade

regVars == <<file, rows, clients, made, unmaking, unmade>>

\* one turn of a thread seen twice: the text the front end has put together
\* from the demultiplexer's outputs while the turn streamed, and what two
\* reconstructions of the stored messages, one after the other, returned and
\* left behind
VARIABLES live, rebuilt

rebuildVars == <<live, rebuilt>>

\* one thread and the Streamlit or Gradio session that has it selected: the
\* title stored for the thread, the session's message list, the thread's
\* stored conversation, and a record of which user message the title was
\* last taken from
VARIABLES titling

\* one submission to the Gradio front end: the session state before and
\* after it, what it did to the registry and to the checkpoint store, and how
\* it ended
VARIABLES submitting

\* one call of stream_langgraph_events: the graph run behind it, the events
\* the generator has yielded so far, and how the call ended
VARIABLES stream

\* one start of a front end: what load_thread_ids read and what the session
\* holds once it is initialised
VARIABLES startup

\* one front-end session at its conversation list: the registry file, the
\* checkpoint database, the list and the current thread the session holds,
\* and the last New Task, selection or deletion made in it
VARIABLES sidebar

extraVars == <<titling, submitting, stream, startup, sidebar>>

\* all but the variable of one of these
besidesTitling == <<submitting, stream, startup, sidebar>>

besidesSubmitting == <<titling, stream, startup, sidebar>>

besidesStream == <<titling, submitting, startup, sidebar>>

besidesStartup == <<titling, submitting, stream, sidebar>>

besidesSidebar == <<titling, submitting, stream, startup>>

concVars == <<flights, regVars, rebuildVars, extraVars>>

\* fixed during a behaviour of the workflow
fixedVars == <<env, ui, turn_limit>>

wfVars == <<env, ui, turn_limit, registry, next_thread, checkpoints, session, run,
            events, hist, turns>>

vars == <<wfVars, pureVars, demuxVars, concVars>>

Last(q) == q[Len(q)]

PureIdle == fn = "none" /\ arg = <<>> /\ result = [done |-> FALSE]

MaxSessions == 2

Sessions == 1..MaxSessions

IdleFlight == [phase |-> "idle", thread |-> 1, listener |-> "none"]

FlightIdle == flights = [s \in Sessions |-> IdleFlight]

RegistryClients == {"A", "B"}

IdleClient ==
    [op |-> "none", pc |-> "idle", tid |-> 0, local |-> <<>>, thread_ids |-> <<>>,
     fault |-> "none", raised |-> FALSE, logged |-> FALSE]

RegIdle ==
    /\ file = <<>>
    /\ rows = {}
    /\ clients = [c \in RegistryClients |-> IdleClient]
    /\ made = {}
    /\ unmaking = {}
    /\ unmade = {}

NoOutput == [progress_output |-> <<>>, final_output |-> <<>>]

EmptyTracker == [processed_message_ids |-> {}, processed_content_hashes |-> {}]

NotRebuilt ==
    [done |-> FALSE, first |-> <<>>, second |-> <<>>, messages |-> <<>>,
     tracker |-> EmptyTracker]

RebuildIdle == live = <<>> /\ rebuilt = NotRebuilt

UntitledThread ==
    [front |-> "none", title |-> <<"n", "e", "w">>, messages |-> <<>>, stored |-> <<>>,
     waiting_for_approval |-> FALSE, users |-> 0, titled_at |-> 0, titled_from |-> <<>>]

TitleIdle == titling = UntitledThread

NotSubmitted == [phase |-> "none"]

NotStreaming == [phase |-> "none"]

NotStarted == [phase |-> "none"]

NoSidebar == [op |-> "closed"]

ExtraIdle ==
    /\ TitleIdle
    /\ submitting = NotSubmitted
    /\ stream = NotStreaming
    /\ startup = NotStarted
    /\ sidebar = NoSidebar

ConcIdle == FlightIdle /\ RegIdle /\ RebuildIdle /\ ExtraIdle

DemuxIdle ==
    /\ tracker = EmptyTracker
    /\ emitted = NoOutput
    /\ probe = [agent_name |-> <<>>, is_dict |-> FALSE, messages |-> <<>>]
    /\ probe_first = [fed |-> FALSE, progress_output |-> <<>>, final_output |-> <<>>]
    /\ calls = 0
    /\ repeat = FALSE
    /\ shown = <<>>
    /\ dropped = {}
    /\ history = <<>>
    /\ loaded = "none"

EmptyCheckpoint ==
    [messages |-> <<>>, plan_approved |-> FALSE, next |-> "none", plan_review |-> <<>>]

NewTurn == [planned |-> FALSE, suspended |-> FALSE, replied |-> FALSE, reviewed |-> <<>>]

IdleRun ==
    [phase |-> "idle", thread |-> 0, kind |-> "none", check |-> FALSE,
     resume_pending |-> FALSE, consumed |-> FALSE, human_input |-> <<>>,
     exc |-> <<>>, error |-> FALSE, delegations |-> 0, end_next |-> "none",
     entered_at |-> "none"]

ChunkEvent(agent) == [kind |-> "chunk", agent |-> agent, interrupted |-> FALSE]

CompleteEvent(interrupted) == [kind |-> "complete", agent |-> "", interrupted |-> interrupted]

\* the state after the UI session has been constructed: the registry was
\* empty, so one conversation was created and made current
InitWorkflow ==
    /\ env \in [interrupt_raises : BOOLEAN, state_read_fails : BOOLEAN]
    /\ ui \in {"gradio", "streamlit"}
    /\ registry = <<1>>
    /\ next_thread = 2
    /\ checkpoints = [t \in ThreadIds |-> EmptyCheckpoint]
    /\ session = [current_thread_id |-> 1, thread_ids |-> <<1>>,
                  waiting_for_approval |-> FALSE, approval_interrupted |-> FALSE,
                  current_plan |-> <<>>]
    /\ run = IdleRun
    /\ events = <<>>
    /\ hist = [t \in ThreadIds |-> NewTurn]
    /\ turns = 0

\* the full session
Init == InitWorkflow /\ turn_limit = MaxTurns /\ PureIdle /\ DemuxIdle /\ ConcIdle

\* the checkpoint, session and turn history once the first request of a
\* thread has been planned and the run is suspended at human_chat
SuspendedCheckpoint ==
    LET msgs == <<HumanMessage(TxtBuildModel), AIMessage("planning_agent", Append(TxtPlan, "1"))>>
    IN  [messages |-> msgs, plan_approved |-> FALSE, next |-> "human_chat",
         plan_review |-> Append(TxtPlan, "1")]

SuspendedSession ==
    [current_thread_id |-> 1, thread_ids |-> <<1>>, waiting_for_approval |-> TRUE,
     approval_interrupted |-> TRUE, current_plan |-> <<"planning_agent">>]

SuspendedTurn ==
    [planned |-> TRUE, suspended |-> TRUE, replied |-> FALSE,
     reviewed |-> Append(TxtPlan, "1")]

\* a session of MaxRunTurns submissions on one thread, which is either new
\* or suspended at human_chat awaiting the review of its first plan
InitRunOf(limit) ==
    /\ env \in [interrupt_raises : BOOLEAN, state_read_fails : BOOLEAN]
    /\ ui \in {"gradio", "streamlit"}
    /\ turn_limit = limit
    /\ registry = <<1>>
    /\ next_thread = 2
    /\ \E suspended \in BOOLEAN :
          /\ checkpoints = [t \in ThreadIds |->
                               IF suspended /\ t = 1 THEN SuspendedCheckpoint
                               ELSE EmptyCheckpoint]
          /\ session = IF suspended THEN SuspendedSession
                       ELSE [SuspendedSession EXCEPT !.waiting_for_approval = FALSE,
                                                     !.approval_interrupted = FALSE,
                                                     !.current_plan = <<>>]
          /\ hist = [t \in ThreadIds |->
                        IF suspended /\ t = 1 THEN SuspendedTurn ELSE NewTurn]
    /\ run = IdleRun
    /\ events = <<>>
    /\ turns = 0
    /\ PureIdle
    /\ ConcIdle
    /\ DemuxIdle

InitRun == InitRunOf(MaxRunTurns)

Cp == checkpoints[run.thread]

Node == Cp.next

InGraph == run.phase = "graph"

(***************************************************************************)
(* Starting a graph run (app.astream / app.stream with the thread's        *)
(* config).  A fresh input appends the user message to the thread's state  *)
(* and starts at __start__; a resume continues at the pending node and     *)
(* hands the resume value to the next interrupt() call.                    *)
(***************************************************************************)
StartRun(t, kind, text, check) ==
    /\ run' = [phase |-> "graph", thread |-> t, kind |-> kind, check |-> check,
               resume_pending |-> (kind # "fresh"), consumed |-> FALSE,
               human_input |-> text, exc |-> <<>>, error |-> FALSE,
               delegations |-> 0, end_next |-> "none",
               entered_at |-> IF kind = "fresh" THEN "__start__" ELSE checkpoints[t].next]
    /\ events' = <<>>
    /\ turns' = turns + 1
    /\ IF kind = "fresh"
       THEN /\ checkpoints' = [checkpoints EXCEPT
                                  ![t].messages = Append(@, HumanMessage(text)),
                                  ![t].next = "__start__",
                                  ![t].plan_review = <<>>]
            /\ hist' = [hist EXCEPT ![t] = NewTurn]
       ELSE UNCHANGED <<checkpoints, hist>>

(***************************************************************************)
(* The nodes of the graph (create_app).                                    *)
(***************************************************************************)
\* conditional edge out of START
NodeStart ==
    /\ InGraph /\ Node = "__start__"
    /\ \E out \in ClassifierAnswers :
          /\ checkpoints' = [checkpoints EXCEPT ![run.thread].next = StartEdge(Cp, out)]
          /\ hist' = [hist EXCEPT ![run.thread].planned = (route_from_start(Cp, out) = "plan")]
    /\ UNCHANGED <<fixedVars, pureVars, demuxVars, concVars, registry, next_thread, session, run, events, turns>>

\* an agent node raises: the run stops and the checkpoint keeps the node pending
NodeRaises ==
    /\ InGraph /\ Node \in {"planning_agent", "supervisor"}
    /\ \E exc \in AgentExceptions : run' = [run EXCEPT !.phase = "raised", !.exc = exc]
    /\ UNCHANGED <<fixedVars, pureVars, demuxVars, concVars, registry, next_thread, checkpoints, session, events, hist, turns>>

PlanText(messages) ==
    LET IsPlan(m) == m.name = "planning_agent"
    IN  Append(TxtPlan, Digits[Len(SelectSeq(messages, IsPlan)) + 1])

\* planning_agent writes a plan, then route_from_planning picks the next node
NodePlanning ==
    /\ InGraph /\ Node = "planning_agent"
    /\ LET msgs == Append(Cp.messages, AIMessage("planning_agent", PlanText(Cp.messages)))
           st == [Cp EXCEPT !.messages = msgs]
       IN  checkpoints' = [checkpoints EXCEPT
                              ![run.thread] = [st EXCEPT !.next = PlanningEdge(st)]]
    /\ events' = Append(events, ChunkEvent("planning_agent"))
    /\ UNCHANGED <<fixedVars, pureVars, demuxVars, concVars, registry, next_thread, session, run, hist, turns>>

\* human_chat_node reaches interrupt() with no resume value: the run is
\* suspended with human_chat pending
NodeHumanChatInterrupt ==
    /\ InGraph /\ Node = "human_chat" /\ ~run.resume_pending
    /\ checkpoints' = [checkpoints EXCEPT ![run.thread].plan_review = planning_output(Cp)]
    /\ hist' = [hist EXCEPT ![run.thread].suspended = TRUE,
                             ![run.thread].reviewed = planning_output(Cp)]
    /\ run' = IF env.interrupt_raises
              THEN [run EXCEPT !.phase = "raised", !.exc = ExcGraphInterrupt]
              ELSE [run EXCEPT !.phase = "ended"]
    /\ UNCHANGED <<fixedVars, pureVars, demuxVars, concVars, registry, next_thread, session, events, turns>>

\* human_chat_node with a resume value: interrupt() returns it
NodeHumanChatResume ==
    /\ InGraph /\ Node = "human_chat" /\ run.resume_pending
    /\ LET upd == human_chat_node(Cp, run.human_input)
       IN  checkpoints' = [checkpoints EXCEPT
                              ![run.thread].messages = upd.messages,
                              ![run.thread].plan_approved = upd.plan_approved,
                              ![run.thread].plan_review = <<>>,
                              ![run.thread].next = StaticEdge("human_chat")]
    /\ hist' = [hist EXCEPT ![run.thread].replied = hist[run.thread].suspended]
    /\ run' = [run EXCEPT !.resume_pending = FALSE, !.consumed = TRUE]
    /\ events' = Append(events, ChunkEvent("human_chat"))
    /\ UNCHANGED <<fixedVars, pureVars, demuxVars, concVars, registry, next_thread, session, turns>>

\* the supervisor narrates, then hands off to a sub-agent, to report_agent,
\* or finishes
NodeSupervisor ==
    /\ InGraph /\ Node = "supervisor"
    /\ \E nxt \in SubAgents \cup {"report_agent", "none"} :
          /\ nxt \in SubAgents => run.delegations < MaxDelegations
          /\ checkpoints' = [checkpoints EXCEPT
                                ![run.thread].messages =
                                    Append(@, AIMessage("supervisor", <<"s">>)),
                                ![run.thread].next = nxt]
          /\ run' = [run EXCEPT !.delegations =
                                    IF nxt \in SubAgents THEN @ + 1 ELSE @]
    /\ events' = Append(events, ChunkEvent("supervisor"))
    /\ UNCHANGED <<fixedVars, pureVars, demuxVars, concVars, registry, next_thread, session, hist, turns>>

\* a sub-agent works and returns to the supervisor; report_agent goes to END
NodeAgent ==
    /\ InGraph /\ Node \in SubAgents \cup {"report_agent"}
    /\ checkpoints' = [checkpoints EXCEPT
                          ![run.thread].messages = Append(@, AIMessage(Node, <<"r">>)),
                          ![run.thread].next = StaticEdge(Node)]
    /\ events' = Append(events, ChunkEvent(Node))
    /\ UNCHANGED <<fixedVars, pureVars, demuxVars, concVars, registry, next_thread, session, run, hist, turns>>

\* nothing is pending: the stream iterator is exhausted
GraphEnd ==
    /\ InGraph /\ Node = "none"
    /\ run' = [run EXCEPT !.phase = "ended"]
    /\ UNCHANGED <<fixedVars, pureVars, demuxVars, concVars, registry, next_thread, checkpoints, session, events, hist, turns>>


(***************************************************************************)
(* The end of a stream: stream_langgraph_events (Gradio) and               *)
(* process_stream_updates (Streamlit), each followed by what its caller    *)
(* does with the result.                                                   *)
(***************************************************************************)
Idle == run.phase = "idle"

\* the final-channel content accumulated from the chunks of the run
AccumulatedFinal(evs) ==
    LET IsFinal(e) == e.kind = "chunk" /\ e.agent \in {"planning_agent", "report_agent"}
        fs == SelectSeq(evs, IsFinal)
    IN  [i \in 1..Len(fs) |-> fs[i].agent]

\* outcomes get_state can have after the stream is exhausted
ReadOutcomes == IF env.state_read_fails THEN {TRUE, FALSE} ELSE {TRUE}

\* _run_user_message on a ("complete", payload) event
GradioOnComplete(payload) ==
    session' = [session EXCEPT !.waiting_for_approval = payload,
                               !.approval_interrupted = payload]

\* what process_stream_updates and its caller leave in the session when the
\* run ends with `interrupted`; kind is the calling path
StreamlitOnReturn(kind, interrupted) ==
    LET marked == IF interrupted
                  THEN [session EXCEPT !.waiting_for_approval = TRUE,
                                       !.current_plan = AccumulatedFinal(events),
                                       !.approval_interrupted = TRUE]
                  ELSE session
    IN  session' =
            IF kind = "fresh"
            THEN IF interrupted THEN marked
                 ELSE [marked EXCEPT !.approval_interrupted = FALSE]
            ELSE [marked EXCEPT !.waiting_for_approval = FALSE,
                                !.current_plan = <<>>,
                                !.approval_interrupted = FALSE]

FinishComplete(interrupted) ==
    /\ events' = Append(events, CompleteEvent(interrupted))
    /\ run' = [run EXCEPT !.phase = "idle", !.end_next = Cp.next]
    /\ IF ui = "gradio"
       THEN GradioOnComplete(interrupted)
       ELSE StreamlitOnReturn(run.kind, interrupted)

\* the exception leaves the stream: Gradio lets it propagate, Streamlit's
\* callers catch and report it; neither touches the session
FinishError ==
    /\ run' = [run EXCEPT !.phase = "idle", !.error = TRUE, !.end_next = Cp.next]
    /\ UNCHANGED <<events, session>>

\* the stream is exhausted without an exception
StreamExhausted ==
    /\ run.phase = "ended"
    /\ \E read_ok \in ReadOutcomes :
          FinishComplete(StreamInterrupted(run.check, read_ok, Cp.next))
    /\ UNCHANGED <<fixedVars, pureVars, demuxVars, concVars, registry, next_thread, checkpoints, hist, turns>>

\* the underlying execution raised
StreamRaised ==
    /\ run.phase = "raised"
    /\ IF run.check /\ _is_interrupt_exception(run.exc)
       THEN FinishComplete(TRUE)
       ELSE FinishError
    /\ UNCHANGED <<fixedVars, pureVars, demuxVars, concVars, registry, next_thread, checkpoints, hist, turns>>

(***************************************************************************)
(* app/gradio_app.py                                                       *)
(***************************************************************************)
\* on_send_message -> _run_user_message(prompt, state)
GradioSend ==
    /\ ui = "gradio" /\ Idle /\ turns < turn_limit
    /\ \E typed \in Prompts :
          LET prompt == Strip(typed)
              resume == session.waiting_for_approval
          IN  /\ Truthy(prompt)
              /\ session' = [session EXCEPT !.waiting_for_approval = FALSE,
                                            !.approval_interrupted = FALSE]
              /\ StartRun(session.current_thread_id,
                          IF resume THEN "resume" ELSE "fresh", prompt, TRUE)
    /\ UNCHANGED <<fixedVars, pureVars, demuxVars, concVars, registry, next_thread>>

\* on_conversation_table_select, column 0 -> _activate_thread
GradioActivateThread ==
    /\ ui = "gradio" /\ Idle
    /\ \E row \in 1..Len(session.thread_ids) :
          session' = [session EXCEPT !.current_thread_id = session.thread_ids[row],
                                     !.waiting_for_approval = FALSE,
                                     !.approval_interrupted = FALSE]
    /\ UNCHANGED <<fixedVars, pureVars, demuxVars, concVars, registry, next_thread, checkpoints, run, events, hist, turns>>

\* remove_thread_id: the registry entry and the checkpoint rows of the thread
remove_thread_id(reg, t) ==
    LET Other(x) == x # t IN SelectSeq(reg, Other)

\* on_conversation_table_select, column 1 -> _delete_thread
GradioDeleteThread ==
    /\ ui = "gradio" /\ Idle
    /\ \E row \in 1..Len(session.thread_ids) :
          LET t == session.thread_ids[row]
              reg == remove_thread_id(registry, t)
          IN  /\ Len(session.thread_ids) > 1
              /\ registry' = reg
              /\ checkpoints' = [checkpoints EXCEPT ![t] = EmptyCheckpoint]
              /\ hist' = [hist EXCEPT ![t] = NewTurn]
              /\ session' = [session EXCEPT
                                !.thread_ids = reg,
                                !.current_thread_id =
                                    IF session.current_thread_id = t /\ Len(reg) > 0
                                    THEN reg[Len(reg)] ELSE @,
                                !.waiting_for_approval = FALSE,
                                !.approval_interrupted = FALSE]
    /\ UNCHANGED <<fixedVars, pureVars, demuxVars, concVars, next_thread, run, events, turns>>

\* on_new_task -> create_new_conversation
GradioNewTask ==
    /\ ui = "gradio" /\ Idle /\ next_thread <= MaxThreads
    /\ registry' = Append(registry, next_thread)
    /\ next_thread' = next_thread + 1
    /\ session' = [session EXCEPT !.thread_ids = Append(registry, next_thread),
                                  !.current_thread_id = next_thread,
                                  !.waiting_for_approval = FALSE,
                                  !.approval_interrupted = FALSE]
    /\ UNCHANGED <<fixedVars, pureVars, demuxVars, concVars, checkpoints, run, events, hist, turns>>

(***************************************************************************)
(* app/streamlit_app.py                                                    *)
(***************************************************************************)
\* main -> handle_user_input(prompt)
StreamlitInput ==
    /\ ui = "streamlit" /\ Idle /\ turns < turn_limit
    /\ \E prompt \in Prompts :
          /\ Truthy(prompt)
          /\ IF session.waiting_for_approval
             THEN StartRun(session.current_thread_id, "resume", prompt, FALSE)
             ELSE StartRun(session.current_thread_id, "fresh", prompt, TRUE)
    /\ UNCHANGED <<fixedVars, pureVars, demuxVars, concVars, registry, next_thread, session>>

\* handle_human_approval
StreamlitApprove ==
    /\ ui = "streamlit" /\ Idle /\ turns < turn_limit
    /\ session.waiting_for_approval /\ Truthy(session.current_plan)
    /\ StartRun(session.current_thread_id, "approval", TxtApproved, FALSE)
    /\ UNCHANGED <<fixedVars, pureVars, demuxVars, concVars, registry, next_thread, session>>

Next ==
    \/ GradioSend
    \/ GradioActivateThread
    \/ GradioDeleteThread
    \/ GradioNewTask
    \/ StreamlitInput
    \/ StreamlitApprove
    \/ NodeStart
    \/ NodeRaises
    \/ NodePlanning
    \/ NodeHumanChatInterrupt
    \/ NodeHumanChatResume
    \/ NodeSupervisor
    \/ NodeAgent
    \/ GraphEnd
    \/ StreamExhausted
    \/ StreamRaised

Spec == Init /\ [][Next]_vars

\* the runs of a session without thread management
NextRun ==
    \/ GradioSend
    \/ StreamlitInput
    \/ StreamlitApprove
    \/ NodeStart
    \/ NodeRaises
    \/ NodePlanning
    \/ NodeHumanChatInterrupt
    \/ NodeHumanChatResume
    \/ NodeSupervisor
    \/ NodeAgent
    \/ GraphEnd
    \/ StreamExhausted
    \/ StreamRaised

SpecRun == InitRun /\ [][NextRun]_vars

\* a step of the graph executor that is not a failure of a node;
\* planning_agent has its own condition below
GraphStep ==
    \/ NodeStart
    \/ NodeHumanChatInterrupt
    \/ NodeHumanChatResume
    \/ NodeSupervisor
    \/ NodeAgent
    \/ GraphEnd

\* weak fairness of NodePlanning with its enabling condition written out:
\* the step is enabled exactly while planning_agent is the pending node of a
\* running graph
PlanningIsRun ==
    \/ []<>(~(InGraph /\ Node = "planning_agent"))
    \/ []<><<NodePlanning>>_vars

\* one submission on one thread, with an executor that keeps running the
\* pending node: app.stream / app.astream does not return before the graph
\* stops
SpecRunFair ==
    InitRunOf(1) /\ [][NextRun]_vars /\ WF_vars(GraphStep) /\ PlanningIsRun


(***************************************************************************)
(* Pure functions applied to enumerated inputs.                            *)
(***************************************************************************)
MaxRouteMsgs == 3        \* messages in a state handed to a pure function

RECURSIVE SeqsUpTo(_, _)
\* the sequences over S of length at most n
SeqsUpTo(S, n) ==
    IF n = 0 THEN {<<>>}
    ELSE LET shorter == SeqsUpTo(S, n - 1)
         IN  shorter \cup {Append(q, x) : q \in {r \in shorter : Len(r) = n - 1}, x \in S}

\* messages of the states route_from_planning is applied to
RouteMessages ==
    {HumanMessage(t) : t \in {TxtBuildModel, TxtLooksGood, TxtAlsoTox,
                              TxtNotGoodEnough, TxtOkUpper, TxtBlank}}
        \cup {AIMessage("planning_agent", TxtPlan)}

\* messages of the states human_chat_node is applied to
ChatMessages == {HumanMessage(TxtBuildModel), AIMessage("planning_agent", TxtPlan)}

\* resume inputs handed to human_chat_node
ResumeInputs ==
    {TxtApproved, TxtApprovedCap, TxtApprovedUpper, TxtApprovedPadded,
     TxtAlsoTox, TxtOkUpper, TxtBlank}

\* messages of the states route_from_start is applied to
StartMessages ==
    {HumanMessage(TxtBuildModel), HumanMessage(TxtAlsoTox), HumanMessage(<<>>),
     AIMessage("planning_agent", TxtPlan)}

\* answers of the routing classifier handed to route_from_start
StartAnswers ==
    ClassifierAnswers
        \cup {<<"S", "K", "I", "P">>, <<"n", "o", " ", "s", "k", "i", "p">>,
              <<"s", "k", "i", "p", "p", "i", "n", "g">>, <<>>}

\* the workflow variables of a behaviour that only applies pure functions
WorkflowIdle ==
    /\ env = [interrupt_raises |-> FALSE, state_read_fails |-> FALSE]
    /\ ui = "gradio"
    /\ turn_limit = 0
    /\ registry = <<1>>
    /\ next_thread = 2
    /\ checkpoints = [t \in ThreadIds |-> EmptyCheckpoint]
    /\ session = [current_thread_id |-> 1, thread_ids |-> <<1>>,
                  waiting_for_approval |-> FALSE, approval_interrupted |-> FALSE,
                  current_plan |-> <<>>]
    /\ run = IdleRun
    /\ events = <<>>
    /\ hist = [t \in ThreadIds |-> NewTurn]
    /\ turns = 0

InitPure ==
    /\ WorkflowIdle
    /\ DemuxIdle
    /\ ConcIdle
    /\ result = [done |-> FALSE]
    /\ \/ /\ fn = "route_from_planning"
          /\ arg \in {[messages |-> ms] : ms \in SeqsUpTo(RouteMessages, MaxRouteMsgs)}
       \/ /\ fn = "human_chat_node"
          /\ arg \in {[state |-> [messages |-> ms, plan_approved |-> FALSE],
                       human_input |-> h] :
                          ms \in SeqsUpTo(ChatMessages, MaxRouteMsgs), h \in ResumeInputs}
       \/ /\ fn = "route_from_start"
          /\ arg \in {[state |-> [messages |-> ms], out |-> out] :
                          ms \in SeqsUpTo(StartMessages, MaxRouteMsgs), out \in StartAnswers}

\* the planning_agent node has run: its conditional edge is evaluated
ApplyRouteFromPlanning ==
    /\ fn = "route_from_planning" /\ ~result.done
    /\ result' = [done |-> TRUE, value |-> route_from_planning(arg)]
    /\ UNCHANGED <<wfVars, demuxVars, concVars, fn, arg>>

\* human_chat is resumed with human_input: the node returns its update and the
\* graph follows the edge out of human_chat
ApplyHumanChatNode ==
    /\ fn = "human_chat_node" /\ ~result.done
    /\ result' = [done |-> TRUE,
                  value |-> human_chat_node(arg.state, arg.human_input),
                  next |-> StaticEdge("human_chat")]
    /\ UNCHANGED <<wfVars, demuxVars, concVars, fn, arg>>

\* a turn starts: the conditional edge out of START is evaluated; the
\* classifier is asked about user_text and answers out
ApplyRouteFromStart ==
    /\ fn = "route_from_start" /\ ~result.done
    /\ result' = [done |-> TRUE,
                  value |-> route_from_start(arg.state, arg.out),
                  classified |-> _latest_user_text(arg.state),
                  next |-> StartEdge(arg.state, arg.out)]
    /\ UNCHANGED <<wfVars, demuxVars, concVars, fn, arg>>

NextPure ==
    \/ ApplyRouteFromPlanning
    \/ ApplyHumanChatNode
    \/ ApplyRouteFromStart

SpecPure == InitPure /\ [][NextPure]_vars

(***************************************************************************)
(* src/app/ui/formatters.py: the stream demultiplexer.                     *)
(*                                                                         *)
(* Rendered text is a sequence whose elements are single characters or the *)
(* fixed markers of the source, each marker one element.  A demultiplexer  *)
(* message is a record [id, type, name, content, tool_calls, tool_call_id] *)
(* with <<>> for a missing id; a tool call is [name, args] and args is a   *)
(* sequence of [key, value] pairs with string values.  A chunk is          *)
(* [agent_name, is_dict, messages]: one node's update; is_dict is FALSE    *)
(* for an update that is not a dict, such as the __interrupt__ tuple.      *)
(***************************************************************************)
TOOL_CALL_START_MARKER == "<!--TOOL_CALL_START-->"

TOOL_CALL_END_MARKER == "<!--TOOL_CALL_END-->"

TOOL_BLOCK_META_PREFIX == "<!--TOOL_BLOCK_META:"

TOOL_BLOCK_META_SUFFIX == "-->"

HashPrefixLen == 300

ArgsPrefixLen == 200

Prefix(s, n) == SubSeq(s, 1, IF Len(s) < n THEN Len(s) ELSE n)

UpperChar(c) ==
    IF \E i \in 1..26 : LowerAlpha[i] = c
    THEN UpperAlpha[CHOOSE i \in 1..26 : LowerAlpha[i] = c]
    ELSE c

UpperText(s) == [i \in 1..Len(s) |-> UpperChar(s[i])]

RECURSIVE Concat(_)
Concat(parts) == IF parts = <<>> THEN <<>> ELSE Head(parts) \o Concat(Tail(parts))

_wrap_tool_block(content, kind, source) ==
    LET body == Strip(content)
        meta == <<"kind=", kind>>
                    \o (IF Truthy(source) THEN <<"|", "source=">> \o source ELSE <<>>)
    IN  IF ~Truthy(body)
        THEN <<>>
        ELSE <<TOOL_CALL_START_MARKER, "\n", TOOL_BLOCK_META_PREFIX>> \o meta
                 \o <<TOOL_BLOCK_META_SUFFIX, "\n">> \o body
                 \o <<"\n", TOOL_CALL_END_MARKER, "\n">>

\* the backquote character, spelled out
Backquote == "(backquote)"

\* one line per argument; the values of the model are plain strings that are
\* not code, so every argument takes the last branch of the source
pretty_print_tool_call(name, args) ==
    LET line(a) == <<"**Args:** ", Backquote>> \o a.key \o <<Backquote, ":", " ", Backquote>>
                       \o a.value \o <<Backquote, "\n", "\n">>
        output == <<"Tool: ", Backquote>> \o name \o <<Backquote, "\n", "\n">>
                      \o Concat([i \in 1..Len(args) |-> line(args[i])])
    IN  _wrap_tool_block(output, "call", name)

\* str(args) of a dict of strings
StrArgs(args) ==
    LET sep(k) == IF k = 1 THEN <<>> ELSE <<",", " ">>
        entry(k) == sep(k) \o <<"'">> \o args[k].key \o <<"'", ":", " ", "'">>
                        \o args[k].value \o <<"'">>
    IN  <<"{">> \o Concat([k \in 1..Len(args) |-> entry(k)]) \o <<"}">>

\* repr(content) of a string without quotes or escapes in it
ReprText(content) == <<"'">> \o content \o <<"'">>

\* a variant of _derive_message_id that looks at tool_call_id first
_derive_message_id_call_first(msg) ==
    IF msg.type = "tool" /\ Truthy(msg.tool_call_id)
    THEN <<"tool_call:">> \o msg.tool_call_id
    ELSE IF Truthy(msg.id)
    THEN msg.id
    ELSE IF msg.type = "tool"
         THEN <<"tool_signature:">>
                  \o msg.name \o <<":">> \o Prefix(ReprText(msg.content), ArgsPrefixLen)
         ELSE <<>>

\* hashlib.sha1 and the built-in hash are taken to be free of collisions on
\* the texts of the model: the digest of a text stands for the text
_derive_message_id(msg) ==
    IF Truthy(msg.id)
    THEN msg.id
    ELSE IF msg.type = "tool"
         THEN IF Truthy(msg.tool_call_id)
              THEN <<"tool_call:">> \o msg.tool_call_id
              ELSE <<"tool_signature:">>
                       \o msg.name \o <<":">> \o Prefix(ReprText(msg.content), ArgsPrefixLen)
         ELSE <<>>

ToolSignature(tool_calls) ==
    Concat([i \in 1..Len(tool_calls) |->
                <<"TOOL:">> \o tool_calls[i].name \o <<":">>
                    \o Prefix(StrArgs(tool_calls[i].args), ArgsPrefixLen)])

content_to_check(msg) ==
    msg.content
        \o ToolSignature(msg.tool_calls)
        \o (IF msg.type = "tool"
            THEN <<"TOOL_RESULT:">> \o msg.name \o <<":">> \o Prefix(msg.content, ArgsPrefixLen)
            ELSE <<>>)

\* what one message adds to agent_output once it has passed deduplication
RenderMessage(msg) ==
    (IF Truthy(msg.content) /\ msg.type # "tool"
     THEN msg.content \o <<"\n", "\n">>
     ELSE <<>>)
        \o Concat([i \in 1..Len(msg.tool_calls) |->
                       pretty_print_tool_call(msg.tool_calls[i].name, msg.tool_calls[i].args)])
        \o (IF msg.type = "tool"
            THEN _wrap_tool_block(msg.content \o <<"\n", "\n">>, "result", msg.name)
            ELSE <<>>)

\* a variant of AddProcessedId that forgets the message
AddProcessedId_forgetful(ids, msg_id) == ids

\* processed_message_ids.add(msg_id)
AddProcessedId(ids, msg_id) == ids \cup {msg_id}

\* the body of the loop over a node's messages; acc carries agent_output
\* and the two sets of the tracker
ProcessMessage(acc, msg) ==
    LET msg_id == _derive_message_id(msg)
        marked == AddProcessedId(acc.processed_message_ids, msg_id)
        checked == Strip(content_to_check(msg))
        primary_hash == Prefix(checked, HashPrefixLen)
        tool_only_hash == ToolSignature(msg.tool_calls)
    IN  IF ~Truthy(msg_id) \/ msg_id \in acc.processed_message_ids
        THEN acc
        ELSE IF msg.type = "human"
        THEN [acc EXCEPT !.processed_message_ids = marked]
        ELSE IF Truthy(checked) /\ primary_hash \in acc.processed_content_hashes
        THEN [acc EXCEPT !.processed_message_ids = marked]
        ELSE [agent_output |-> acc.agent_output \o RenderMessage(msg),
              processed_message_ids |-> marked,
              processed_content_hashes |->
                  IF Truthy(checked)
                  THEN acc.processed_content_hashes \cup {primary_hash}
                           \cup (IF Truthy(tool_only_hash) THEN {tool_only_hash} ELSE {})
                  ELSE acc.processed_content_hashes]

RECURSIVE ProcessMessages(_, _)
ProcessMessages(acc, messages) ==
    IF messages = <<>>
    THEN acc
    ELSE ProcessMessages(ProcessMessage(acc, Head(messages)), Tail(messages))

NameSupervisor == <<"s", "u", "p", "e", "r", "v", "i", "s", "o", "r">>

NamePlanningAgent == <<"p", "l", "a", "n", "n", "i", "n", "g", "_", "a", "g", "e", "n", "t">>

NameReportAgent == <<"r", "e", "p", "o", "r", "t", "_", "a", "g", "e", "n", "t">>

NameResearchAgent == <<"r", "e", "s", "e", "a", "r", "c", "h", "_", "a", "g", "e", "n", "t">>

NameHumanChat == <<"h", "u", "m", "a", "n", "_", "c", "h", "a", "t">>

NameStart == <<"_", "_", "s", "t", "a", "r", "t", "_", "_">>

NameEnd == <<"_", "_", "e", "n", "d", "_", "_">>

\* the five progress markers; each leading symbol is one element
supervisor_patterns ==
    { <<"(clipboard)", " ">> \o <<"B", "R", "E", "A", "K", "D", "O", "W", "N", ":">>,
      <<"(hourglass)", " ">> \o <<"C", "U", "R", "R", "E", "N", "T", ":">>,
      <<"(check)", " ">> \o <<"C", "O", "M", "P", "L", "E", "T", "E", "D", ":">>,
      <<"(clipboard)", " ">> \o <<"R", "E", "M", "A", "I", "N", "I", "N", "G", ":">>,
      <<"(clipboard)", " ">> \o <<"O", "V", "E", "R", "A", "L", "L", " ", "N", "O", "T", "E">> }

RuleWidth == 40

\* a variant of GoesToFinal that knows the planning agent only
GoesToFinal_planning_only(agent_name) == LowerText(agent_name) = NamePlanningAgent

\* if agent_name.lower() in ["planning_agent", "report_agent"]
GoesToFinal(agent_name) == LowerText(agent_name) \in {NamePlanningAgent, NameReportAgent}

\* a variant of IsInternalNode that skips no node
IsInternalNode_none(agent_name) == FALSE

\* if agent_name.lower() in ["human_chat", "__start__", "__end__"]: continue
IsInternalNode(agent_name) == LowerText(agent_name) \in {NameHumanChat, NameStart, NameEnd}

\* a variant of DisplayedAgent that keeps the name of the chunk
DisplayedAgent_literal(agent_name, is_supervisor_content) == agent_name

\* if is_supervisor_content and agent_name.lower() not in
\* ["planning_agent", "report_agent"]: agent_name = "supervisor"
DisplayedAgent(agent_name, is_supervisor_content) ==
    IF is_supervisor_content
       /\ LowerText(agent_name) \notin {NamePlanningAgent, NameReportAgent}
    THEN NameSupervisor
    ELSE agent_name

\* one call of the demultiplexer: the two outputs and the tracker as the call
\* leaves it
separate_agent_outputs(chunk, processed_message_ids, processed_content_hashes) ==
    LET untouched == [progress_output |-> <<>>, final_output |-> <<>>,
                      processed_message_ids |-> processed_message_ids,
                      processed_content_hashes |-> processed_content_hashes]
        acc == ProcessMessages([agent_output |-> <<>>,
                                processed_message_ids |-> processed_message_ids,
                                processed_content_hashes |-> processed_content_hashes],
                               chunk.messages)
        is_supervisor_content ==
            \E pattern \in supervisor_patterns : Contains(pattern, acc.agent_output)
        agent_name == DisplayedAgent(chunk.agent_name, is_supervisor_content)
        formatted_agent_output ==
            <<"\n", "\n", "**">> \o UpperText(agent_name) \o <<"**", "\n">>
                \o [i \in 1..RuleWidth |-> "-"] \o <<"\n", "\n">> \o acc.agent_output
        to_final == GoesToFinal(agent_name)
    IN  IF ~chunk.is_dict
        THEN untouched
        ELSE IF IsInternalNode(chunk.agent_name)
        THEN untouched
        ELSE [progress_output |->
                  IF Truthy(acc.agent_output) /\ ~to_final
                  THEN formatted_agent_output ELSE <<>>,
              final_output |->
                  IF Truthy(acc.agent_output) /\ to_final
                  THEN formatted_agent_output ELSE <<>>,
              processed_message_ids |-> acc.processed_message_ids,
              processed_content_hashes |-> acc.processed_content_hashes]

(***************************************************************************)
(* The demultiplexer called repeatedly with one tracker.                   *)
(***************************************************************************)
Message(id, type, name, content, tool_calls, tool_call_id) ==
    [id |-> id, type |-> type, name |-> name, content |-> content,
     tool_calls |-> tool_calls, tool_call_id |-> tool_call_id]

NameSearch == <<"s", "e", "a", "r", "c", "h">>

MsgPlan == Message(<<"m", "1">>, "ai", NamePlanningAgent, TxtPlan, <<>>, <<>>)

\* the same text under another id
MsgPlanAgain == Message(<<"m", "2">>, "ai", NamePlanningAgent, TxtPlan, <<>>, <<>>)

\* content that is only whitespace
MsgBlank == Message(<<"m", "3">>, "ai", NamePlanningAgent, TxtBlank, <<>>, <<>>)

MsgNoId == Message(<<>>, "ai", NameResearchAgent, TxtAlsoTox, <<>>, <<>>)

MsgHuman == Message(<<"h", "1">>, "human", <<>>, TxtBuildModel, <<>>, <<>>)

MsgToolCall ==
    Message(<<"m", "4">>, "ai", NameResearchAgent, <<>>,
            <<[name |-> NameSearch, args |-> <<[key |-> <<"q">>, value |-> <<"x">>]>>]>>, <<>>)

MsgToolResult == Message(<<>>, "tool", NameSearch, <<"h", "i", "t">>, <<>>, <<"c", "1">>)

\* a tool result as a checkpoint stores it, with an id of its own
MsgToolStored == Message(<<"t", "1">>, "tool", NameSearch, <<"h", "i", "t">>, <<>>, <<"c", "1">>)

\* a tool result with neither an id nor a tool_call_id
MsgToolAnon == Message(<<>>, "tool", NameSearch, <<"h", "i", "t">>, <<>>, <<>>)

MsgProgress ==
    Message(<<"m", "5">>, "ai", NameResearchAgent,
            <<"(check)", " ">> \o <<"C", "O", "M", "P", "L", "E", "T", "E", "D", ":", " ", "a">>, <<>>, <<>>)

\* a plan that lists its steps under a progress marker
MsgPlanProgress ==
    Message(<<"m", "1", "1">>, "ai", NamePlanningAgent,
            <<"(clipboard)", " ">> \o <<"B", "R", "E", "A", "K", "D", "O", "W", "N", ":", " ", "a">>, <<>>, <<>>)

Chunk(agent_name, messages) ==
    [agent_name |-> agent_name, is_dict |-> TRUE, messages |-> messages]

\* the update a suspended run streams under __interrupt__: a tuple, not a dict
InterruptChunk == [agent_name |-> <<"_", "_", "i", "n", "t", "e", "r", "r", "u", "p", "t", "_", "_">>, is_dict |-> FALSE, messages |-> <<>>]

DemuxChunks ==
    { Chunk(NamePlanningAgent, <<MsgHuman, MsgPlan>>),
      Chunk(NamePlanningAgent, <<MsgPlanAgain>>),
      Chunk(NamePlanningAgent, <<MsgBlank>>),
      Chunk(NameSupervisor, <<MsgBlank, MsgPlan>>),
      Chunk(NameResearchAgent, <<MsgToolCall, MsgToolResult>>),
      Chunk(NameResearchAgent, <<MsgToolAnon>>),
      Chunk(NameResearchAgent, <<MsgToolStored>>),
      Chunk(NameResearchAgent, <<MsgNoId>>),
      Chunk(NameResearchAgent, <<MsgProgress>>),
      Chunk(NamePlanningAgent, <<MsgPlanProgress>>),
      Chunk(NameReportAgent, <<MsgPlanAgain, MsgToolCall>>),
      Chunk(NameHumanChat, <<MsgHuman, MsgPlan>>),
      InterruptChunk }

MaxCalls == 3

NotFed == [fed |-> FALSE, progress_output |-> <<>>, final_output |-> <<>>]

InitDemux ==
    /\ WorkflowIdle
    /\ PureIdle
    /\ ConcIdle
    /\ tracker = EmptyTracker
    /\ emitted = NoOutput
    /\ probe \in DemuxChunks
    /\ probe_first = NotFed
    /\ calls = 0
    /\ repeat = FALSE
    /\ shown = <<>>
    /\ dropped = {}
    /\ history = <<>>
    /\ loaded = "none"

\* the caller hands chunk and its tracker to separate_agent_outputs; the
\* sets of the tracker are updated in place
Feed(chunk) ==
    LET out == separate_agent_outputs(chunk, tracker.processed_message_ids,
                                      tracker.processed_content_hashes)
    IN  /\ calls < MaxCalls
        /\ calls' = calls + 1
        /\ emitted' = [progress_output |-> out.progress_output,
                       final_output |-> out.final_output]
        /\ tracker' = [processed_message_ids |-> out.processed_message_ids,
                       processed_content_hashes |-> out.processed_content_hashes]
        /\ UNCHANGED <<wfVars, pureVars, concVars, probe, shown, dropped, history, loaded>>

FeedProbe ==
    /\ Feed(probe)
    /\ repeat' = probe_first.fed
    /\ probe_first' = IF probe_first.fed
                      THEN probe_first
                      ELSE [fed |-> TRUE, progress_output |-> emitted'.progress_output,
                            final_output |-> emitted'.final_output]

FeedOther ==
    /\ \E chunk \in DemuxChunks \ {probe} : Feed(chunk)
    /\ repeat' = FALSE
    /\ UNCHANGED probe_first

NextDemux ==
    \/ FeedProbe
    \/ FeedOther

SpecDemux == InitDemux /\ [][NextDemux]_vars

(***************************************************************************)
(* The demultiplexer over the stream of one thread, with a record of what  *)
(* reached the display.                                                    *)
(***************************************************************************)
\* a text longer than the prefix the fingerprint is taken from
LongText(tail) == [i \in 1..HashPrefixLen |-> "a"] \o tail

\* a plan and its refinement: the same long opening, another ending
MsgLongPlan == Message(<<"m", "7">>, "ai", NamePlanningAgent, LongText(<<"1">>), <<>>, <<>>)

MsgLongPlanRefined == Message(<<"m", "8">>, "ai", NamePlanningAgent, LongText(<<"2">>), <<>>, <<>>)

\* whitespace-only content under another id than MsgBlank
MsgBlankAgain == Message(<<"m", "6">>, "ai", NamePlanningAgent, TxtBlank, <<>>, <<>>)

\* the tool call of MsgToolCall, announced with a sentence
MsgSayAndCall ==
    Message(<<"m", "9">>, "ai", NameResearchAgent, TxtAlsoTox,
            <<[name |-> NameSearch, args |-> <<[key |-> <<"q">>, value |-> <<"x">>]>>]>>, <<>>)

\* the tool call of MsgToolCall made once more
MsgToolCallAgain ==
    Message(<<"m", "1", "0">>, "ai", NameResearchAgent, <<>>,
            <<[name |-> NameSearch, args |-> <<[key |-> <<"q">>, value |-> <<"x">>]>>]>>, <<>>)

DedupChunks ==
    { Chunk(NamePlanningAgent, <<MsgHuman, MsgPlan>>),
      Chunk(NamePlanningAgent, <<MsgPlanAgain>>),
      Chunk(NamePlanningAgent, <<MsgBlank>>),
      Chunk(NamePlanningAgent, <<MsgBlankAgain>>),
      Chunk(NamePlanningAgent, <<MsgLongPlan>>),
      Chunk(NamePlanningAgent, <<MsgLongPlanRefined>>),
      Chunk(NameResearchAgent, <<MsgSayAndCall, MsgToolResult>>),
      Chunk(NameResearchAgent, <<MsgToolCall>>),
      Chunk(NameResearchAgent, <<MsgToolCallAgain, MsgToolResult>>),
      Chunk(NameHumanChat, <<MsgHuman>>) }

\* the content of a message: its text, its tool calls, and whether it is a
\* tool result
MessageContent(msg) == <<msg.content, msg.tool_calls, msg.type = "tool">>

\* the loop over a node's messages followed message by message: which
\* messages it appended to agent_output, and which it passed over although
\* their identifier was new, they render to something, and no message
\* rendered before them had their content
RECURSIVE Followed(_, _, _)
Followed(acc, rendered, messages) ==
    IF messages = <<>>
    THEN [shown |-> rendered, dropped |-> {}]
    ELSE LET msg == Head(messages)
             msg_id == _derive_message_id(msg)
             after == ProcessMessage(acc, msg)
             appended == after.agent_output # acc.agent_output
             new == /\ Truthy(msg_id)
                    /\ msg_id \notin acc.processed_message_ids
                    /\ msg.type # "human"
                    /\ Truthy(RenderMessage(msg))
                    /\ \A i \in 1..Len(rendered) :
                           MessageContent(rendered[i]) # MessageContent(msg)
             rest == Followed(after, IF appended THEN Append(rendered, msg) ELSE rendered,
                              Tail(messages))
         IN  [shown |-> rest.shown,
              dropped |-> rest.dropped \cup (IF new /\ ~appended THEN {msg} ELSE {})]

InitDedup ==
    /\ WorkflowIdle
    /\ PureIdle
    /\ ConcIdle
    /\ DemuxIdle

\* a chunk of the stream reaches the demultiplexer
Deliver ==
    \E chunk \in DedupChunks :
        LET out == separate_agent_outputs(chunk, tracker.processed_message_ids,
                                          tracker.processed_content_hashes)
            displayed == chunk.is_dict
                             /\ LowerText(chunk.agent_name) \notin {NameHumanChat, NameStart, NameEnd}
            followed == IF displayed
                        THEN Followed([agent_output |-> <<>>,
                                       processed_message_ids |-> tracker.processed_message_ids,
                                       processed_content_hashes |-> tracker.processed_content_hashes],
                                      shown, chunk.messages)
                        ELSE [shown |-> shown, dropped |-> {}]
        IN  /\ calls < MaxCalls
            /\ calls' = calls + 1
            /\ emitted' = [progress_output |-> out.progress_output,
                           final_output |-> out.final_output]
            /\ tracker' = [processed_message_ids |-> out.processed_message_ids,
                           processed_content_hashes |-> out.processed_content_hashes]
            /\ shown' = followed.shown
            /\ dropped' = dropped \cup followed.dropped
            /\ UNCHANGED <<wfVars, pureVars, concVars, probe, probe_first, repeat, history, loaded>>

NextDedup == Deliver

SpecDedup == InitDedup /\ [][NextDedup]_vars

(***************************************************************************)
(* backend/memory/episodic_memory/conversation.py: the tracker of a thread *)
(* across turns, thread switches and restarts of the Streamlit front end.  *)
(* Messages in a checkpoint carry an identifier.                           *)
(***************************************************************************)
\* messages a turn can add to the thread
TurnMessages == {MsgHuman, MsgPlan, MsgToolCall, MsgToolStored, MsgProgress}

MaxHistory == 3

get_processed_message_ids_from_sqlite(messages) ==
    {messages[i].id : i \in {j \in 1..Len(messages) : Truthy(messages[j].id)}}

\* load_conversation(thread_id, app): what it leaves in the tracker
load_conversation(messages, app_given) ==
    IF app_given
    THEN [processed_message_ids |-> get_processed_message_ids_from_sqlite(messages),
          processed_content_hashes |-> {}]
    ELSE EmptyTracker

InitReload ==
    /\ WorkflowIdle
    /\ PureIdle
    /\ ConcIdle
    /\ tracker = EmptyTracker
    /\ emitted = NoOutput
    /\ probe = [agent_name |-> <<>>, is_dict |-> FALSE, messages |-> <<>>]
    /\ probe_first = NotFed
    /\ calls = 0
    /\ repeat = FALSE
    /\ shown = <<>>
    /\ dropped = {}
    /\ history = <<>>
    /\ loaded = "new"

\* one more message is stored in the thread's checkpoint and the node that
\* produced it streams the thread's messages, the new one last
ReloadTurn ==
    /\ Len(history) < MaxHistory
    /\ \E msg \in TurnMessages, agent \in {NamePlanningAgent, NameResearchAgent} :
          LET stored == Append(history, msg)
              out == separate_agent_outputs(Chunk(agent, stored),
                                            tracker.processed_message_ids,
                                            tracker.processed_content_hashes)
          IN  /\ \A i \in 1..Len(history) : history[i].id # msg.id
              /\ history' = stored
              /\ emitted' = [progress_output |-> out.progress_output,
                             final_output |-> out.final_output]
              /\ tracker' = [processed_message_ids |-> out.processed_message_ids,
                             processed_content_hashes |-> out.processed_content_hashes]
    /\ loaded' = "turn"
    /\ UNCHANGED <<wfVars, pureVars, concVars, probe, probe_first, calls, repeat, shown, dropped>>

\* a new Streamlit session starts with the thread in the registry:
\* initialize_session_state calls load_conversation(thread_id, None)
StreamlitRestart ==
    /\ loaded # "restart"
    /\ tracker' = load_conversation(history, FALSE)
    /\ emitted' = NoOutput
    /\ loaded' = "restart"
    /\ UNCHANGED <<wfVars, pureVars, concVars, probe, probe_first, calls, repeat, shown, dropped, history>>

\* the thread is selected in the sidebar: load_conversation(thread_id, app)
StreamlitSwitch ==
    /\ loaded # "switch"
    /\ tracker' = load_conversation(history, TRUE)
    /\ emitted' = NoOutput
    /\ loaded' = "switch"
    /\ UNCHANGED <<wfVars, pureVars, concVars, probe, probe_first, calls, repeat, shown, dropped, history>>

NextReload ==
    \/ ReloadTurn
    \/ StreamlitRestart
    \/ StreamlitSwitch

SpecReload == InitReload /\ [][NextReload]_vars

(***************************************************************************)
(* Turns issued from several front-end sessions.  Every session reads the  *)
(* same registry and checkpoint store.  Gradio runs the events of one      *)
(* listener one at a time (app.queue with the default concurrency limit)   *)
(* and the events of different listeners side by side; a Streamlit session *)
(* runs its script on its own.                                             *)
(***************************************************************************)
Listeners == {"send_btn.click", "user_input.submit"}

InitFlight ==
    /\ env = [interrupt_raises |-> FALSE, state_read_fails |-> FALSE]
    /\ ui \in {"gradio", "streamlit"}
    /\ turn_limit = 0
    /\ registry = <<1, 2>>
    /\ next_thread = 3
    /\ checkpoints = [t \in ThreadIds |-> EmptyCheckpoint]
    /\ session = [current_thread_id |-> 1, thread_ids |-> <<1, 2>>,
                  waiting_for_approval |-> FALSE, approval_interrupted |-> FALSE,
                  current_plan |-> <<>>]
    /\ run = IdleRun
    /\ events = <<>>
    /\ hist = [t \in ThreadIds |-> NewTurn]
    /\ turns = 0
    /\ PureIdle
    /\ DemuxIdle
    /\ flights = [s \in Sessions |-> [IdleFlight EXCEPT !.thread = Last(registry)]]
    /\ RegIdle
    /\ RebuildIdle
    /\ ExtraIdle

\* session s selects thread t in its conversation list
FlightSelect(s, t) ==
    /\ flights[s].phase = "idle"
    /\ flights[s].thread # t
    /\ flights' = [flights EXCEPT ![s].thread = t]
    /\ UNCHANGED <<wfVars, pureVars, demuxVars, regVars, rebuildVars, extraVars>>

\* the user of session s sends a message: on_send_message is queued under
\* its listener (Gradio), or handle_user_input runs at once (Streamlit)
FlightSubmit(s) ==
    /\ flights[s].phase = "idle"
    /\ IF ui = "gradio"
       THEN \E l \in Listeners :
                flights' = [flights EXCEPT ![s].phase = "queued", ![s].listener = l]
       ELSE flights' = [flights EXCEPT ![s].phase = "running", ![s].listener = "chat_input"]
    /\ UNCHANGED <<wfVars, pureVars, demuxVars, regVars, rebuildVars, extraVars>>

\* the queue starts the event: _run_user_message calls
\* stream_langgraph_events for the session's thread
FlightStart(s) ==
    /\ flights[s].phase = "queued"
    /\ \A o \in Sessions :
           flights[o].phase = "running" => flights[o].listener # flights[s].listener
    /\ flights' = [flights EXCEPT ![s].phase = "running"]
    /\ UNCHANGED <<wfVars, pureVars, demuxVars, regVars, rebuildVars, extraVars>>

\* the stream of session s ends
FlightComplete(s) ==
    /\ flights[s].phase = "running"
    /\ flights' = [flights EXCEPT ![s].phase = "idle", ![s].listener = "none"]
    /\ UNCHANGED <<wfVars, pureVars, demuxVars, regVars, rebuildVars, extraVars>>

NextFlight ==
    \/ \E s \in Sessions, t \in ThreadIds : FlightSelect(s, t)
    \/ \E s \in Sessions : FlightSubmit(s)
    \/ \E s \in Sessions : FlightStart(s)
    \/ \E s \in Sessions : FlightComplete(s)

SpecFlight == InitFlight /\ [][NextFlight]_vars

(***************************************************************************)
(* backend/memory/episodic_memory/thread_manager.py under two front-end    *)
(* sessions.  A registry operation reads thread_ids.json, changes its copy *)
(* and writes the file back; the read and the write are separate steps.    *)
(* The file itself is taken to be readable and writable.                   *)
(***************************************************************************)
ThreadEntry(t, title) == [thread_id |-> t, title |-> title]

EntryIds(thread_ids) == {thread_ids[i].thread_id : i \in 1..Len(thread_ids)}

IdList(thread_ids) == [i \in 1..Len(thread_ids) |-> thread_ids[i].thread_id]

\* a variant of add_thread_id that puts the new thread first
add_thread_id_first(thread_ids, t, title) ==
    IF t \in EntryIds(thread_ids)
    THEN thread_ids
    ELSE <<ThreadEntry(t, title)>> \o thread_ids

\* add_thread_id on the list it has loaded: the list it saves
add_thread_id(thread_ids, t, title) ==
    IF t \in EntryIds(thread_ids)
    THEN thread_ids
    ELSE Append(thread_ids, ThreadEntry(t, title))

\* remove_thread_id on the list it has loaded: the list it saves
FilterThread(thread_ids, t) ==
    LET keep(e) == e.thread_id # t
    IN  SelectSeq(thread_ids, keep)

\* update_thread_title on the list it has loaded: the list it saves
update_thread_title(thread_ids, t, new_title) ==
    [i \in 1..Len(thread_ids) |->
        IF thread_ids[i].thread_id = t
        THEN [thread_ids[i] EXCEPT !.title = new_title]
        ELSE thread_ids[i]]

\* what can go wrong in the database: nothing, the connection or a DELETE
\* (nothing is committed), or VACUUM after the commit
DbFaults == {"none", "delete", "vacuum"}

\* a variant of delete_thread_from_database without its try/except
delete_thread_from_database_unguarded(db_rows, t, fault) ==
    [rows |-> IF fault = "delete" THEN db_rows ELSE db_rows \ {t},
     ok |-> fault = "none", logged |-> FALSE, raised |-> fault # "none"]

delete_thread_from_database(db_rows, t, fault) ==
    [rows |-> IF fault = "delete" THEN db_rows ELSE db_rows \ {t},
     ok |-> fault = "none", logged |-> fault # "none", raised |-> FALSE]

InitRegistry ==
    /\ WorkflowIdle
    /\ PureIdle
    /\ DemuxIdle
    /\ FlightIdle
    /\ RebuildIdle
    /\ ExtraIdle
    /\ file = <<ThreadEntry(1, "Conversation")>>
    /\ rows \in {{}, {1}}
    /\ clients = [c \in RegistryClients |-> [IdleClient EXCEPT !.thread_ids = <<1>>]]
    /\ made = {1}
    /\ unmaking = {}
    /\ unmade = {}

ClientStep(c, now) == clients' = [clients EXCEPT ![c] = now]

Begin(c, op, t) ==
    [clients[c] EXCEPT !.op = op, !.pc = "load", !.tid = t, !.local = <<>>,
                       !.fault = "none", !.raised = FALSE, !.logged = FALSE]

\* the ids generate_new_thread_id has handed out so far; a uuid4 is never
\* handed out twice, and the next one is taken to be the least unused id
UsedIds ==
    made \cup EntryIds(file) \cup unmaking
         \cup {clients[d].tid : d \in {e \in RegistryClients : clients[e].pc # "idle"}}

\* New Task: create_new_conversation generates an id and calls add_thread_id
RegNewTask(c) ==
    /\ clients[c].pc = "idle"
    /\ \E t \in ThreadIds :
          /\ t \notin UsedIds
          /\ \A u \in ThreadIds : u < t => u \in UsedIds
          /\ ClientStep(c, Begin(c, "add", t))
    /\ UNCHANGED <<wfVars, pureVars, demuxVars, flights, rebuildVars, extraVars, file, rows, made, unmaking, unmade>>

\* the first message of a conversation: update_thread_title
RegRename(c) ==
    /\ clients[c].pc = "idle"
    /\ \E i \in 1..Len(clients[c].thread_ids) :
          ClientStep(c, Begin(c, "rename", clients[c].thread_ids[i]))
    /\ UNCHANGED <<wfVars, pureVars, demuxVars, flights, rebuildVars, extraVars, file, rows, made, unmaking, unmade>>

\* the delete control of a listed conversation, behind the front end's
\* guard on the number of threads it lists: remove_thread_id
RegDelete(c) ==
    /\ clients[c].pc = "idle"
    /\ Len(clients[c].thread_ids) > 1
    /\ \E i \in 1..Len(clients[c].thread_ids) :
          LET t == clients[c].thread_ids[i]
          IN  /\ ClientStep(c, Begin(c, "remove", t))
              /\ unmaking' = unmaking \cup {t}
    /\ UNCHANGED <<wfVars, pureVars, demuxVars, flights, rebuildVars, extraVars, file, rows, made, unmade>>

\* thread_ids = load_thread_ids()
RegLoad(c) ==
    /\ clients[c].pc = "load"
    /\ ClientStep(c, [clients[c] EXCEPT
                         !.local = file,
                         !.pc = IF clients[c].op = "add" /\ clients[c].tid \in EntryIds(file)
                                THEN "reload" ELSE "save"])
    /\ UNCHANGED <<wfVars, pureVars, demuxVars, flights, rebuildVars, extraVars, file, rows, made, unmaking, unmade>>

\* save_thread_ids(thread_ids)
RegSave(c) ==
    LET me == clients[c]
    IN  /\ me.pc = "save"
        /\ file' = CASE me.op = "add" -> add_thread_id(me.local, me.tid, "Conversation")
                     [] me.op = "remove" -> FilterThread(me.local, me.tid)
                     [] me.op = "rename" -> update_thread_title(me.local, me.tid, "renamed")
        /\ made' = IF me.op = "add" THEN made \cup {me.tid} ELSE made
        /\ ClientStep(c, [me EXCEPT !.pc = IF me.op = "remove" THEN "purge" ELSE "reload"])
        /\ UNCHANGED <<wfVars, pureVars, demuxVars, flights, rebuildVars, extraVars, rows, unmaking, unmade>>

\* delete_thread_from_database(thread_id), after which remove_thread_id
\* returns or, if the purge raised, is left by the exception
RegPurge(c) ==
    LET me == clients[c]
    IN  /\ me.pc = "purge"
        /\ \E fault \in DbFaults :
              LET res == delete_thread_from_database(rows, me.tid, fault)
              IN  /\ rows' = res.rows
                  /\ ClientStep(c, [me EXCEPT !.pc = "reload", !.fault = fault,
                                              !.raised = res.raised, !.logged = res.logged])
        /\ unmade' = unmade \cup {me.tid}
        /\ UNCHANGED <<wfVars, pureVars, demuxVars, flights, rebuildVars, extraVars, file, made, unmaking>>

\* back in the front end: state.thread_ids = load_thread_ids(), unless an
\* exception has ended the handler
RegReload(c) ==
    LET me == clients[c]
    IN  /\ me.pc = "reload"
        /\ ClientStep(c, [IdleClient EXCEPT
                             !.thread_ids = IF me.raised THEN me.thread_ids
                                            ELSE IdList(file)])
        /\ UNCHANGED <<wfVars, pureVars, demuxVars, flights, rebuildVars, extraVars, file, rows, made, unmaking, unmade>>

\* a turn on a listed thread writes checkpoints for it
RegTurn(c) ==
    /\ clients[c].pc = "idle"
    /\ \E i \in 1..Len(clients[c].thread_ids) :
          /\ clients[c].thread_ids[i] \notin rows
          /\ rows' = rows \cup {clients[c].thread_ids[i]}
    /\ ClientStep(c, clients[c])
    /\ UNCHANGED <<wfVars, pureVars, demuxVars, flights, rebuildVars, extraVars, file, made, unmaking, unmade>>

NextRegistry ==
    \/ \E c \in RegistryClients : RegNewTask(c)
    \/ \E c \in RegistryClients : RegRename(c)
    \/ \E c \in RegistryClients : RegDelete(c)
    \/ \E c \in RegistryClients : RegLoad(c)
    \/ \E c \in RegistryClients : RegSave(c)
    \/ \E c \in RegistryClients : RegPurge(c)
    \/ \E c \in RegistryClients : RegReload(c)
    \/ \E c \in RegistryClients : RegTurn(c)

SpecRegistry == InitRegistry /\ [][NextRegistry]_vars

\* no other session is in the middle of a registry operation
Alone(c) == \A d \in RegistryClients \ {c} : clients[d].pc = "idle"

\* the same operations, each running from its call to its return before the
\* next one starts
NextSerial ==
    \/ \E c \in RegistryClients : Alone(c) /\ RegNewTask(c)
    \/ \E c \in RegistryClients : Alone(c) /\ RegRename(c)
    \/ \E c \in RegistryClients : Alone(c) /\ RegDelete(c)
    \/ \E c \in RegistryClients : Alone(c) /\ RegLoad(c)
    \/ \E c \in RegistryClients : Alone(c) /\ RegSave(c)
    \/ \E c \in RegistryClients : Alone(c) /\ RegPurge(c)
    \/ \E c \in RegistryClients : Alone(c) /\ RegReload(c)
    \/ \E c \in RegistryClients : Alone(c) /\ RegTurn(c)

SpecSerial == InitRegistry /\ [][NextSerial]_vars

(***************************************************************************)
(* app/ui/formatters.py and conversation.py: the reconstructor.  One turn  *)
(* of a thread is streamed through the demultiplexer while its messages    *)
(* are stored, and the stored messages are then reconstructed twice.  A    *)
(* message without a name has the empty name.                              *)
(***************************************************************************)
AgentHeader(agent_name) ==
    <<"\n", "\n", "**">> \o UpperText(agent_name) \o <<"**", "\n">>
        \o [i \in 1..RuleWidth |-> "-"] \o <<"\n", "\n">>

\* a variant of ReconstructStep that files every tool result under the name
\* of its tool
ReconstructStep_by_tool_name(acc, msg) ==
    LET agent_name == msg.name
        changed == agent_name # acc.last_agent
        headed == IF changed THEN acc.output \o AgentHeader(agent_name) ELSE acc.output
        body == IF msg.type = "tool"
                THEN _wrap_tool_block(msg.content \o <<"\n", "\n">>, "result", msg.name)
                ELSE (IF Truthy(msg.content) THEN msg.content \o <<"\n", "\n">> ELSE <<>>)
                         \o Concat([i \in 1..Len(msg.tool_calls) |->
                                        pretty_print_tool_call(msg.tool_calls[i].name,
                                                               msg.tool_calls[i].args)])
    IN  IF acc.failed
        THEN acc
        ELSE IF changed /\ ~Truthy(agent_name)
        THEN [acc EXCEPT !.failed = TRUE]
        ELSE [output |-> headed \o body, last_agent |-> agent_name, failed |-> FALSE]

\* the body of the loop of reconstruct_assistant_response; acc carries
\* output, last_agent and whether an exception has left the loop
ReconstructStep(acc, msg) ==
    LET agent_name == IF msg.type = "tool" /\ Truthy(acc.last_agent)
                      THEN acc.last_agent
                      ELSE msg.name
        changed == agent_name # acc.last_agent
        headed == IF changed THEN acc.output \o AgentHeader(agent_name) ELSE acc.output
        body == IF msg.type = "tool"
                THEN _wrap_tool_block(msg.content \o <<"\n", "\n">>, "result", msg.name)
                ELSE (IF Truthy(msg.content) THEN msg.content \o <<"\n", "\n">> ELSE <<>>)
                         \o Concat([i \in 1..Len(msg.tool_calls) |->
                                        pretty_print_tool_call(msg.tool_calls[i].name,
                                                               msg.tool_calls[i].args)])
    IN  IF acc.failed
        THEN acc
        ELSE IF changed /\ ~Truthy(agent_name)
        THEN [acc EXCEPT !.failed = TRUE]
        ELSE [output |-> headed \o body, last_agent |-> agent_name, failed |-> FALSE]

RECURSIVE ReconstructLoop(_, _)
ReconstructLoop(acc, ai_messages) ==
    IF ai_messages = <<>>
    THEN acc
    ELSE ReconstructLoop(ReconstructStep(acc, Head(ai_messages)), Tail(ai_messages))

reconstruct_assistant_response(ai_messages) ==
    LET acc == ReconstructLoop([output |-> <<>>, last_agent |-> <<>>, failed |-> FALSE],
                               ai_messages)
    IN  IF acc.failed THEN <<>> ELSE Strip(acc.output)

\* current_sequence is reconstructed and, if that gives any text, appended
FlushSequence(acc) ==
    LET formatted_content == reconstruct_assistant_response(acc.current_sequence)
    IN  IF Truthy(acc.current_sequence) /\ Truthy(formatted_content)
        THEN Append(acc.formatted_messages,
                    [role |-> "assistant", content |-> formatted_content])
        ELSE acc.formatted_messages

\* the body of the loop of reconstruct_formatted_message_from_sqlite
FormatStep(acc, msg) ==
    IF msg.type = "human"
    THEN [formatted_messages |->
              FlushSequence(acc)
                  \o (IF Truthy(msg.content)
                      THEN <<[role |-> "user", content |-> msg.content]>>
                      ELSE <<>>),
          current_sequence |-> <<>>]
    ELSE IF msg.type \in {"ai", "tool"}
    THEN [acc EXCEPT !.current_sequence = Append(@, msg)]
    ELSE acc

RECURSIVE FormatLoop(_, _)
FormatLoop(acc, messages) ==
    IF messages = <<>>
    THEN acc
    ELSE FormatLoop(FormatStep(acc, Head(messages)), Tail(messages))

FormatMessages(messages) ==
    FlushSequence(FormatLoop([formatted_messages |-> <<>>, current_sequence |-> <<>>],
                             messages))

\* a variant of reconstruct_formatted_message_from_sqlite that goes through
\* the tracker as the demultiplexer does: it passes over the messages whose
\* identifier is marked and marks the others
reconstruct_formatted_message_from_sqlite_tracking(messages, st) ==
    LET unmarked(m) == m.id \notin st.processed_message_ids
    IN  [formatted_messages |-> FormatMessages(SelectSeq(messages, unmarked)),
         messages |-> messages,
         tracker |-> [st EXCEPT !.processed_message_ids =
                                    @ \cup {messages[i].id : i \in 1..Len(messages)}]]

\* one call: what it returns, and the message list and the tracker of the
\* session st as the call leaves them
reconstruct_formatted_message_from_sqlite(messages, st) ==
    [formatted_messages |-> FormatMessages(messages),
     messages |-> messages,
     tracker |-> st]

TxtDelegate == <<"a", "s", "k">>

MsgDelegate == Message(<<"s", "1">>, "ai", NameSupervisor, TxtDelegate, <<>>, <<>>)

\* the supervisor hands over a second time, in the same words
MsgDelegateAgain == Message(<<"s", "2">>, "ai", NameSupervisor, TxtDelegate, <<>>, <<>>)

MsgReport == Message(<<"r", "1">>, "ai", NameReportAgent, <<"e", "n", "d">>, <<>>, <<>>)

\* a tool result that arrives in an update of its own
MsgToolLate == Message(<<"t", "2">>, "tool", NameSearch, <<"h", "i", "t", "2">>, <<>>, <<"c", "2">>)

\* what the user answers to a plan, as human_chat adds it to the messages
MsgFeedback == Message(<<"h", "2">>, "human", <<>>, <<"m", "o", "r", "e">>, <<>>, <<>>)

\* the updates the nodes of one turn can stream; none is an interrupt
RebuildChunks ==
    { Chunk(NamePlanningAgent, <<MsgPlan>>),
      Chunk(NameResearchAgent, <<MsgToolLate>>),
      Chunk(NameHumanChat, <<MsgFeedback>>),
      Chunk(NameSupervisor, <<MsgDelegate>>),
      Chunk(NameSupervisor, <<MsgDelegateAgain>>),
      Chunk(NameResearchAgent, <<MsgToolCall, MsgToolStored>>),
      Chunk(NameResearchAgent, <<MsgProgress>>),
      Chunk(NameReportAgent, <<MsgReport>>) }

InitRebuild ==
    /\ WorkflowIdle
    /\ PureIdle
    /\ FlightIdle
    /\ RegIdle
    /\ ExtraIdle
    /\ tracker = EmptyTracker
    /\ emitted = NoOutput
    /\ probe = [agent_name |-> <<>>, is_dict |-> FALSE, messages |-> <<>>]
    /\ probe_first = NotFed
    /\ calls = 0
    /\ repeat = FALSE
    /\ shown = <<>>
    /\ dropped = {}
    /\ history = <<MsgHuman>>
    /\ loaded = "none"
    /\ live = <<>>
    /\ rebuilt = NotRebuilt

\* a node's update is stored in the checkpoint and reaches the demultiplexer;
\* the front end appends what the demultiplexer returns to the text of the
\* turn
StreamChunk ==
    \E chunk \in RebuildChunks :
        LET out == separate_agent_outputs(chunk, tracker.processed_message_ids,
                                          tracker.processed_content_hashes)
        IN  /\ calls < MaxCalls
            /\ \A i \in 1..Len(chunk.messages), j \in 1..Len(history) :
                   chunk.messages[i].id # history[j].id
            /\ calls' = calls + 1
            /\ history' = history \o chunk.messages
            /\ emitted' = [progress_output |-> out.progress_output,
                           final_output |-> out.final_output]
            /\ tracker' = [processed_message_ids |-> out.processed_message_ids,
                           processed_content_hashes |-> out.processed_content_hashes]
            /\ live' = live \o out.progress_output \o out.final_output
            /\ rebuilt' = NotRebuilt
            /\ UNCHANGED <<wfVars, pureVars, flights, regVars, extraVars, probe, probe_first, repeat,
                           shown, dropped, loaded>>

\* the stored messages are reconstructed, and reconstructed again
Rebuild ==
    LET first == reconstruct_formatted_message_from_sqlite(history, tracker)
        second == reconstruct_formatted_message_from_sqlite(first.messages, first.tracker)
    IN  /\ ~rebuilt.done
        /\ rebuilt' = [done |-> TRUE,
                       first |-> first.formatted_messages,
                       second |-> second.formatted_messages,
                       messages |-> history,
                       tracker |-> tracker]
        /\ history' = second.messages
        /\ tracker' = second.tracker
        /\ UNCHANGED <<wfVars, pureVars, flights, regVars, extraVars, probe, probe_first, calls, repeat,
                       shown, dropped, loaded, emitted, live>>

NextRebuild ==
    \/ StreamChunk
    \/ Rebuild

SpecRebuild == InitRebuild /\ [][NextRebuild]_vars

(***************************************************************************)
(* The title of a thread.  Both front ends take it from the prompt of a    *)
(* turn when their own message list says the prompt is the first one.      *)
(***************************************************************************)
TitleLimit == 30

Ellipsis == <<".", ".", ".">>

\* a variant of thread_title that cuts without marking the cut
thread_title_cut_only(prompt) ==
    IF Len(prompt) > TitleLimit THEN SubSeq(prompt, 1, TitleLimit) ELSE prompt

\* prompt[:30] + "..." if len(prompt) > 30 else prompt
thread_title(prompt) ==
    IF Len(prompt) > TitleLimit
    THEN SubSeq(prompt, 1, TitleLimit) \o Ellipsis
    ELSE prompt

\* a text of n characters, no two neighbours alike
TextOfLen(n) == [i \in 1..n |-> LowerAlpha[(i % 26) + 1]]

TitleLengths == {10, 30, 31, 45}

TitlePrompts == {TextOfLen(n) : n \in TitleLengths} \cup {<<" ", "h", "i", " ">>, TxtBlank}

WelcomeMessage == [role |-> "assistant", content |-> <<"H", "e", "l", "l", "o", "!">>]

UserMessage(prompt) == [role |-> "user", content |-> prompt]

ReplyMessage == [role |-> "assistant", content |-> TxtPlan]

\* how a turn can end: with output and the graph finished, with output and
\* the graph suspended for the review, or with an exception before any output
TurnOutcomes == {"replied", "suspended", "error"}

\* the formatted messages load_conversation puts into the session, or the
\* welcome message when there are none
LoadedMessages(stored) == IF stored = <<>> THEN <<WelcomeMessage>> ELSE stored

InitTitle ==
    /\ WorkflowIdle
    /\ PureIdle
    /\ DemuxIdle
    /\ FlightIdle
    /\ RegIdle
    /\ RebuildIdle
    /\ submitting = NotSubmitted
    /\ stream = NotStreaming
    /\ startup = NotStarted
    /\ sidebar = NoSidebar
    /\ \E front \in {"streamlit", "gradio"} :
          titling = [UntitledThread EXCEPT !.front = front, !.messages = <<WelcomeMessage>>]

\* what a turn on the thread adds to the session and to the stored
\* conversation once the prompt has been recorded
AfterTurn(t, prompt, outcome) ==
    [t EXCEPT !.messages = IF outcome = "error" THEN @ ELSE Append(@, ReplyMessage),
              !.stored = Append(@, UserMessage(prompt))
                             \o (IF outcome = "error" THEN <<>> ELSE <<ReplyMessage>>),
              !.users = @ + 1]

\* Streamlit, handle_user_input while no review is pending
StreamlitPrompt ==
    /\ titling.front = "streamlit"
    /\ ~titling.waiting_for_approval
    /\ titling.users < MaxTurns + 1
    /\ \E prompt \in TitlePrompts \ {TxtBlank}, outcome \in TurnOutcomes :
          LET recorded == [titling EXCEPT !.messages = Append(@, UserMessage(prompt))]
              first == Len(recorded.messages) = 2
              titled == IF first
                        THEN [recorded EXCEPT !.title = thread_title(prompt),
                                              !.titled_at = titling.users + 1,
                                              !.titled_from = prompt]
                        ELSE recorded
          IN  titling' = [AfterTurn(titled, prompt, outcome) EXCEPT
                             !.waiting_for_approval = outcome = "suspended"]
    /\ UNCHANGED <<wfVars, pureVars, demuxVars, flights, regVars, rebuildVars, besidesTitling>>

\* Streamlit, handle_user_input while a review is pending: the prompt resumes
\* the graph
StreamlitReply ==
    /\ titling.front = "streamlit"
    /\ titling.waiting_for_approval
    /\ titling.users < MaxTurns + 1
    /\ \E prompt \in TitlePrompts \ {TxtBlank}, outcome \in TurnOutcomes :
          LET recorded == [titling EXCEPT !.messages = Append(@, UserMessage(prompt))]
          IN  titling' = [AfterTurn(recorded, prompt, outcome) EXCEPT
                             !.waiting_for_approval = outcome = "error"]
    /\ UNCHANGED <<wfVars, pureVars, demuxVars, flights, regVars, rebuildVars, besidesTitling>>

\* Gradio, _run_user_message without approve_signal, whether or not a review
\* is pending
GradioPrompt ==
    /\ titling.front = "gradio"
    /\ titling.users < MaxTurns + 1
    /\ \E raw \in TitlePrompts, outcome \in TurnOutcomes :
          LET prompt == Strip(raw)
              recorded == [titling EXCEPT !.messages = Append(@, UserMessage(prompt))]
              user_messages == SelectSeq(recorded.messages, LAMBDA m : m.role = "user")
              titled == IF Len(user_messages) = 1
                        THEN [recorded EXCEPT !.title = thread_title(prompt),
                                              !.titled_at = titling.users + 1,
                                              !.titled_from = prompt]
                        ELSE recorded
          IN  /\ Truthy(prompt)
              /\ titling' = [AfterTurn(titled, prompt, outcome) EXCEPT
                                 !.waiting_for_approval = outcome = "suspended"]
    /\ UNCHANGED <<wfVars, pureVars, demuxVars, flights, regVars, rebuildVars, besidesTitling>>

\* the thread is selected again in the sidebar or the conversation table:
\* the session's messages are rebuilt from the stored conversation
TitleReload ==
    /\ titling.messages # LoadedMessages(titling.stored) \/ titling.waiting_for_approval
    /\ titling' = [titling EXCEPT !.messages = LoadedMessages(titling.stored),
                                  !.waiting_for_approval = FALSE]
    /\ UNCHANGED <<wfVars, pureVars, demuxVars, flights, regVars, rebuildVars, besidesTitling>>

\* the Streamlit process is restarted or the page is opened in a new
\* session: initialize_session_state calls load_conversation(thread_id, None)
TitleRestart ==
    /\ titling.front = "streamlit"
    /\ titling.messages # <<WelcomeMessage>> \/ titling.waiting_for_approval
    /\ titling' = [titling EXCEPT !.messages = <<WelcomeMessage>>,
                                  !.waiting_for_approval = FALSE]
    /\ UNCHANGED <<wfVars, pureVars, demuxVars, flights, regVars, rebuildVars, besidesTitling>>

NextTitle ==
    \/ StreamlitPrompt
    \/ StreamlitReply
    \/ GradioPrompt
    \/ TitleReload
    \/ TitleRestart

SpecTitle == InitTitle /\ [][NextTitle]_vars

(***************************************************************************)
(* app/gradio_app.py, _run_user_message from its call to its end, with the *)
(* first step of stream_langgraph_events.  Thread id 0 stands for no       *)
(* thread (None or the empty string).                                      *)
(***************************************************************************)
NoThread == 0

\* the texts a user can submit
SubmitTexts == {TxtBuildModel, TxtLooksGood, TxtBlank, <<>>, <<" ", "h", "i", " ">>}

\* the session states a submission can meet
SubmitStates ==
    [current_thread_id : {NoThread, 1},
     messages : {<<WelcomeMessage>>, <<WelcomeMessage, UserMessage(TxtBuildModel), ReplyMessage>>},
     waiting_for_approval : BOOLEAN,
     approval_interrupted : BOOLEAN,
     current_app_config : {"none", "earlier"}]

InitSubmit ==
    /\ WorkflowIdle
    /\ PureIdle
    /\ DemuxIdle
    /\ FlightIdle
    /\ RegIdle
    /\ RebuildIdle
    /\ TitleIdle
    /\ stream = NotStreaming
    /\ startup = NotStarted
    /\ sidebar = NoSidebar
    /\ \E st \in SubmitStates :
          /\ st.approval_interrupted = st.waiting_for_approval
          /\ submitting = [phase |-> "ready", state |-> st, title |-> <<"n", "e", "w">>,
                           runs |-> 0, before |-> st, ended |-> "none", count |-> 0]

\* the session state when the handler reaches stream_langgraph_events
Prepared(st, prompt, approve_signal) ==
    IF approve_signal
    THEN [st EXCEPT !.waiting_for_approval = FALSE,
                    !.approval_interrupted = FALSE,
                    !.current_app_config = IF @ = "none" THEN "new" ELSE @]
    ELSE [st EXCEPT !.messages = Append(@, UserMessage(prompt)),
                    !.waiting_for_approval = FALSE,
                    !.approval_interrupted = FALSE,
                    !.current_app_config = "new"]

\* the title after the handler's prompt branch
PreparedTitle(st, title, prompt, approve_signal) ==
    LET user_messages == SelectSeq(Prepared(st, prompt, approve_signal).messages,
                                   LAMBDA m : m.role = "user")
    IN  IF ~approve_signal /\ Len(user_messages) = 1 /\ st.current_thread_id # NoThread
        THEN thread_title(prompt)
        ELSE title

\* if not prompt and not approve_signal
RejectsEmpty(prompt, approve_signal) == ~Truthy(prompt) /\ ~approve_signal

\* one submission: Send or Enter with the text typed, or the approve button
GradioSubmit ==
    /\ submitting.phase \in {"ready", "done"}
    /\ submitting.count < MaxTurns
    /\ \E typed \in SubmitTexts, approve_signal \in BOOLEAN, outcome \in TurnOutcomes :
          LET st == submitting.state
              prompt == Strip(typed)
              ready == Prepared(st, prompt, approve_signal)
              common == [submitting EXCEPT !.phase = "done", !.before = st,
                                           !.count = @ + 1]
          IN  IF RejectsEmpty(prompt, approve_signal)
              THEN /\ outcome = "error"
                   /\ submitting' = [common EXCEPT !.ended = "rejected empty"]
              ELSE IF st.current_thread_id = NoThread
              THEN /\ outcome = "error"
                   /\ submitting' = [common EXCEPT
                          !.state = ready,
                          !.title = PreparedTitle(st, submitting.title, prompt, approve_signal),
                          !.ended = "rejected no thread"]
              ELSE submitting' = [common EXCEPT
                          !.state = [ready EXCEPT
                                        !.waiting_for_approval = outcome = "suspended",
                                        !.approval_interrupted = outcome = "suspended"],
                          !.title = PreparedTitle(st, submitting.title, prompt, approve_signal),
                          !.runs = @ + 1,
                          !.ended = outcome]
    /\ UNCHANGED <<wfVars, pureVars, demuxVars, flights, regVars, rebuildVars, besidesSubmitting>>

NextSubmit == GradioSubmit

SpecSubmit == InitSubmit /\ [][NextSubmit]_vars

(***************************************************************************)
(* One graph run as the two front ends drive it: stream_langgraph_events   *)
(* under _run_user_message (Gradio) and process_stream_updates under       *)
(* handle_user_input and handle_human_approval (Streamlit).  Every visit   *)
(* of a node yields one update; the graph library raises when the visits   *)
(* reach the recursion limit of the run's config before the graph stops.   *)
(***************************************************************************)
RECURSION_LIMIT == 100

\* str(GraphRecursionError)
ExcRecursion ==
    << "R", "e", "c", "u", "r", "s", "i", "o", "n", " ", "l", "i", "m", "i",
       "t", " ", "o", "f", " ", "1", "0", "0", " ", "r", "e", "a", "c", "h",
       "e", "d", " ", "w", "i", "t", "h", "o", "u", "t", " ", "h", "i", "t",
       "t", "i", "n", "g", " ", "a", " ", "s", "t", "o", "p", " ", "c", "o",
       "n", "d", "i", "t", "i", "o", "n", ".", " ", "Y", "o", "u", " ", "c",
       "a", "n", " ", "i", "n", "c", "r", "e", "a", "s", "e", " ", "t", "h",
       "e", " ", "l", "i", "m", "i", "t", " ", "b", "y", " ", "s", "e", "t",
       "t", "i", "n", "g", " ", "t", "h", "e", " ", "r", "e", "c", "u", "r",
       "s", "i", "o", "n", "_", "l", "i", "m", "i", "t", " ", "c", "o", "n",
       "f", "i", "g", " ", "k", "e", "y", "." >>

\* messages of the exceptions a run can end with other than the one above
StreamExceptions == {ExcToolFailed, ExcGraphInterrupt}

\* messages of the exceptions closing the database connection can raise:
\* SQLite's own "interrupted", and one without any keyword
CloseExceptions == {<<"i", "n", "t", "e", "r", "r", "u", "p", "t", "e", "d">>, ExcToolFailed}

\* how a run is started: with a new user message, with a typed reply to the
\* review, or with the approve button
RunKinds == {"fresh", "reply", "approve"}

\* check_for_interrupts as the callers pass it
ChecksForInterrupts(front, kind) == front = "gradio" \/ kind = "fresh"

\* session.waiting_for_approval when the stream starts
WaitingAtStart(front, kind) == front = "streamlit" /\ kind # "fresh"

ChunkYielded(n) == [type |-> "chunk", n |-> n]

CompleteYielded(interrupted) == [type |-> "complete", interrupted |-> interrupted]

InitStream ==
    /\ WorkflowIdle
    /\ PureIdle
    /\ DemuxIdle
    /\ FlightIdle
    /\ RegIdle
    /\ RebuildIdle
    /\ TitleIdle
    /\ submitting = NotSubmitted
    /\ startup = NotStarted
    /\ sidebar = NoSidebar
    /\ \E front \in {"gradio", "streamlit"}, kind \in RunKinds :
          stream = [phase |-> "running", front |-> front, kind |-> kind,
                    check |-> ChecksForInterrupts(front, kind),
                    waiting_for_approval |-> WaitingAtStart(front, kind),
                    recursion_limit |-> RECURSION_LIMIT, visits |-> 0,
                    produced |-> <<>>, events |-> <<>>, pending |-> "none",
                    exc |-> <<>>, ended |-> "none"]

\* a node runs and its update reaches the loop over the stream; an update
\* that is not a dict is passed over
GraphVisit ==
    /\ stream.phase = "running"
    /\ stream.visits < stream.recursion_limit
    /\ \E is_dict \in (IF Len(stream.produced) < MaxCalls THEN BOOLEAN ELSE {TRUE}) :
          stream' = [stream EXCEPT
                        !.visits = @ + 1,
                        !.produced = Append(@, is_dict),
                        !.events = IF is_dict /\ stream.front = "gradio"
                                   THEN Append(@, ChunkYielded(stream.visits + 1))
                                   ELSE @]
    /\ UNCHANGED <<wfVars, pureVars, demuxVars, flights, regVars, rebuildVars, besidesStream>>

\* the graph reaches END or suspends in human_chat
GraphStops ==
    /\ stream.phase = "running"
    /\ stream.visits > 0
    /\ \E pending \in {"none", "human_chat"} :
          stream' = [stream EXCEPT !.phase = "ended", !.pending = pending]
    /\ UNCHANGED <<wfVars, pureVars, demuxVars, flights, regVars, rebuildVars, besidesStream>>

\* the visits have used up the budget and the graph has not stopped
GraphOverBudget ==
    /\ stream.phase = "running"
    /\ stream.visits = stream.recursion_limit
    /\ stream' = [stream EXCEPT !.phase = "raised", !.exc = ExcRecursion]
    /\ UNCHANGED <<wfVars, pureVars, demuxVars, flights, regVars, rebuildVars, besidesStream>>

\* a node raises
GraphRaises ==
    /\ stream.phase = "running"
    /\ stream.visits < MaxCalls
    /\ \E exc \in StreamExceptions :
          stream' = [stream EXCEPT !.phase = "raised", !.exc = exc]
    /\ UNCHANGED <<wfVars, pureVars, demuxVars, flights, regVars, rebuildVars, besidesStream>>

\* session.waiting_for_approval once the caller has handled the end of the
\* stream: Gradio takes it from the complete event; Streamlit sets it in
\* process_stream_updates when interrupted, and its resuming callers clear
\* it after a return
WaitingAfterReturn(st, interrupted) ==
    IF st.front = "gradio"
    THEN interrupted
    ELSE IF st.kind = "fresh"
    THEN interrupted \/ st.waiting_for_approval
    ELSE FALSE

\* the stream is exhausted: the pending node is read if asked for, and the
\* end of the turn is reported
StreamReturns ==
    /\ stream.phase = "ended"
    /\ \E read_ok \in BOOLEAN :
          LET interrupted == StreamInterrupted(stream.check, read_ok, stream.pending)
          IN  stream' = [stream EXCEPT
                            !.phase = IF stream.front = "gradio" THEN "closing" ELSE "done",
                            !.events = IF stream.front = "gradio"
                                       THEN Append(@, CompleteYielded(interrupted))
                                       ELSE @,
                            !.waiting_for_approval = WaitingAfterReturn(stream, interrupted),
                            !.ended = "returned"]
    /\ UNCHANGED <<wfVars, pureVars, demuxVars, flights, regVars, rebuildVars, besidesStream>>

\* the except clause around the stream: an exception whose message has one
\* of the keywords is reported as an interrupted turn, any other is raised
\* again; Gradio lets it pass, Streamlit's callers report it
StreamExcept ==
    /\ stream.phase = "raised"
    /\ stream' =
          IF stream.check /\ _is_interrupt_exception(stream.exc)
          THEN [stream EXCEPT
                   !.phase = "done",
                   !.events = IF stream.front = "gradio"
                              THEN Append(@, CompleteYielded(TRUE))
                              ELSE @,
                   !.waiting_for_approval = TRUE,
                   !.ended = "returned"]
          ELSE [stream EXCEPT !.phase = "done", !.ended = "raised"]
    /\ UNCHANGED <<wfVars, pureVars, demuxVars, flights, regVars, rebuildVars, besidesStream>>

\* app_session leaves its block after the complete event: connection.close()
\* returns, or raises into the except clause
SessionCloses ==
    /\ stream.phase = "closing"
    /\ \/ stream' = [stream EXCEPT !.phase = "done"]
       \/ \E exc \in CloseExceptions :
             stream' = [stream EXCEPT !.phase = "raised", !.exc = exc, !.ended = "none"]
    /\ UNCHANGED <<wfVars, pureVars, demuxVars, flights, regVars, rebuildVars, besidesStream>>

NextStream ==
    \/ GraphVisit
    \/ GraphStops
    \/ GraphOverBudget
    \/ GraphRaises
    \/ StreamReturns
    \/ StreamExcept
    \/ SessionCloses

SpecStream == InitStream /\ [][NextStream]_vars

(***************************************************************************)
(* Start-up of a session: thread_manager.load_thread_ids and               *)
(* save_thread_ids, conversation.create_new_conversation, and the          *)
(* initialisation of the two front ends (gradio_app._initialize_state,     *)
(* streamlit_app.initialize_session_state).  The registry file is missing, *)
(* readable or unparsable, and a read or a write can fail in passing.      *)
(***************************************************************************)
RegistryFile(exists, corrupt, entries) ==
    [exists |-> exists, corrupt |-> corrupt, entries |-> entries]

\* how a read of the registry file can fail: "json" while the file does not
\* parse, "io" for an error of open() or read()
ReadFaults(f) ==
    IF f.exists /\ f.corrupt THEN {"json"} ELSE {"none", "io"}

SaveFaults == {"none", "io"}

\* a variant of load_thread_ids without its try/except
load_thread_ids_raising(f, fault) ==
    IF fault # "none"
    THEN [value |-> <<>>, raised |-> TRUE, logged |-> FALSE]
    ELSE [value |-> IF f.exists THEN f.entries ELSE <<>>,
          raised |-> FALSE, logged |-> FALSE]

\* load_thread_ids: the list of the file, [] when the file is missing, and []
\* with a log line when anything raises
load_thread_ids(f, fault) ==
    IF fault # "none"
    THEN [value |-> <<>>, raised |-> FALSE, logged |-> TRUE]
    ELSE [value |-> IF f.exists THEN f.entries ELSE <<>>,
          raised |-> FALSE, logged |-> FALSE]

\* save_thread_ids: the file holds the list, or is left alone when open() fails
save_thread_ids(f, thread_ids, fault) ==
    IF fault # "none" THEN f ELSE RegistryFile(TRUE, FALSE, thread_ids)

StartupFiles ==
    { RegistryFile(FALSE, FALSE, <<>>) }
    \cup { RegistryFile(TRUE, corrupt, entries) :
             corrupt \in BOOLEAN,
             entries \in { <<>>,
                           <<ThreadEntry(1, "Conversation")>>,
                           <<ThreadEntry(1, "Conversation"),
                             ThreadEntry(2, "Conversation")>> } }

InitStartup ==
    /\ WorkflowIdle
    /\ PureIdle
    /\ DemuxIdle
    /\ FlightIdle
    /\ RegIdle
    /\ RebuildIdle
    /\ TitleIdle
    /\ submitting = NotSubmitted
    /\ stream = NotStreaming
    /\ sidebar = NoSidebar
    /\ \E f \in StartupFiles :
          startup = [phase |-> "boot", front |-> "none", file |-> f,
                     generated |-> 2, sessions |-> 0,
                     thread_ids |-> <<>>, current_thread_id |-> NoThread,
                     created |-> FALSE, first_fault |-> "none",
                     first_value |-> <<>>, listed_before |-> 0,
                     raised |-> FALSE]

\* create_new_conversation under the faults of its read and its write: the
\* file it leaves
CreatedFile(f, new, read_fault, save_fault) ==
    LET listed == load_thread_ids(f, read_fault)
    IN  save_thread_ids(f, add_thread_id(listed.value, new, "Conversation"), save_fault)

\* One start of a session, from the first read of the registry to the current
\* thread.  Both front ends take the last thread of a non-empty list and
\* create a conversation for an empty one; they differ in the order of the
\* last two assignments only.
InitializeState(front) ==
    /\ startup.phase \in {"boot", "started"}
    /\ startup.sessions < MaxSessions
    /\ \E f1 \in ReadFaults(startup.file) :
          LET first == load_thread_ids(startup.file, f1)
              base  == [startup EXCEPT !.front = front,
                                       !.sessions = @ + 1,
                                       !.first_fault = f1,
                                       !.first_value = first.value,
                                       !.listed_before =
                                           IF startup.file.exists
                                           THEN Len(startup.file.entries) ELSE 0]
          IN  IF first.raised
              THEN startup' = [base EXCEPT !.phase = "raised", !.raised = TRUE,
                                           !.created = FALSE,
                                           !.thread_ids = <<>>,
                                           !.current_thread_id = NoThread]
              ELSE IF first.value # <<>>
              THEN startup' = [base EXCEPT !.phase = "started",
                                           !.created = FALSE,
                                           !.thread_ids = first.value,
                                           !.current_thread_id =
                                               Last(first.value).thread_id]
              ELSE LET new == startup.generated + 1
                   IN  \E f2 \in ReadFaults(startup.file), sv \in SaveFaults :
                          LET inner == load_thread_ids(startup.file, f2)
                              after == CreatedFile(startup.file, new, f2, sv)
                          IN  \E f3 \in ReadFaults(after) :
                                 LET again == load_thread_ids(after, f3)
                                     bad   == inner.raised \/ again.raised
                                 IN  startup' =
                                       [base EXCEPT
                                          !.phase = IF bad THEN "raised" ELSE "started",
                                          !.raised = bad,
                                          !.file = IF inner.raised THEN @ ELSE after,
                                          !.generated = new,
                                          !.created = ~inner.raised,
                                          !.thread_ids = again.value,
                                          !.current_thread_id =
                                              IF inner.raised
                                                 \/ (again.raised /\ front = "gradio")
                                              THEN NoThread ELSE new]
    /\ UNCHANGED <<wfVars, pureVars, demuxVars, flights, regVars, rebuildVars,
                   besidesStartup>>

NextStartup == \E front \in {"gradio", "streamlit"} : InitializeState(front)

SpecStartup == InitStartup /\ [][NextStartup]_vars

(***************************************************************************)
(* thread_manager.py: the three writers of the registry, each called on    *)
(* its own with any thread id, present in the list or not.  The client     *)
(* record keeps the call and the list the call loaded.                     *)
(***************************************************************************)
CallIds == 1..(MaxThreads + 1)

CallTitles == {"Conversation", "renamed"}

RECURSIVE ListsOver(_)
\* the duplicate-free lists of threads with ids in S, in every order
ListsOver(S) ==
    {<<>>} \cup UNION { { <<ThreadEntry(t, title)>> \o rest :
                            title \in {"Conversation"}, rest \in ListsOver(S \ {t}) } :
                        t \in S }

Caller == CHOOSE c \in RegistryClients : TRUE

Called(op, t, thread_ids) ==
    [clients EXCEPT ![Caller] = [IdleClient EXCEPT !.op = op, !.tid = t,
                                                   !.thread_ids = thread_ids]]

InitCalls ==
    /\ WorkflowIdle
    /\ PureIdle
    /\ DemuxIdle
    /\ FlightIdle
    /\ RebuildIdle
    /\ ExtraIdle
    /\ file \in ListsOver(CallIds)
    /\ rows = {}
    /\ clients = [c \in RegistryClients |-> IdleClient]
    /\ made = {}
    /\ unmaking = {}
    /\ unmade = {}

\* add_thread_id(thread_id, title): load, append unless present, save
CallAdd ==
    /\ \E t \in CallIds, title \in CallTitles :
          /\ file' = add_thread_id(file, t, title)
          /\ clients' = Called("add", t, file)
    /\ UNCHANGED <<wfVars, pureVars, demuxVars, flights, rebuildVars, extraVars,
                   rows, made, unmaking, unmade>>

\* update_thread_title(thread_id, new_title): load, retitle, save
CallRename ==
    /\ \E t \in CallIds, title \in CallTitles :
          /\ file' = update_thread_title(file, t, title)
          /\ clients' = Called("rename", t, file)
    /\ UNCHANGED <<wfVars, pureVars, demuxVars, flights, rebuildVars, extraVars,
                   rows, made, unmaking, unmade>>

\* remove_thread_id(thread_id): load, filter, save
CallRemove ==
    /\ \E t \in CallIds :
          /\ file' = FilterThread(file, t)
          /\ clients' = Called("remove", t, file)
    /\ UNCHANGED <<wfVars, pureVars, demuxVars, flights, rebuildVars, extraVars,
                   rows, made, unmaking, unmade>>

NextCalls == CallAdd \/ CallRename \/ CallRemove

SpecCalls == InitCalls /\ [][NextCalls]_vars

(***************************************************************************)
(* app/gradio_app.py (on_new_task, _activate_thread, _delete_thread,       *)
(* _run_user_message) and app/ui/components.py (display_sidebar,           *)
(* _display_conversation_list): the conversation list of one session,      *)
(* which is alone on the registry.  Each load_thread_ids inside an         *)
(* operation can meet a passing read error; writes of the file succeed; a  *)
(* failed purge of the database is kept, since remove_thread_id goes on    *)
(* after it.                                                               *)
(***************************************************************************)
\* the ids generate_new_thread_id hands out in one session
SidebarIds == 1..(MaxThreads + 1)

StoredThreads(n) == [i \in 1..n |-> ThreadEntry(i, "Conversation")]

\* a session as initialize_session_state / _initialize_state leaves it on a
\* registry that lists some threads: the last listed thread is current
InitSidebar ==
    /\ WorkflowIdle
    /\ PureIdle
    /\ DemuxIdle
    /\ FlightIdle
    /\ RegIdle
    /\ RebuildIdle
    /\ TitleIdle
    /\ submitting = NotSubmitted
    /\ stream = NotStreaming
    /\ startup = NotStarted
    /\ \E front \in {"gradio", "streamlit"}, n \in 1..MaxThreads, stored \in BOOLEAN :
          sidebar = [op |-> "none", front |-> front,
                     file |-> RegistryFile(TRUE, FALSE, StoredThreads(n)),
                     rows |-> IF stored THEN 1..n ELSE {},
                     thread_ids |-> StoredThreads(n),
                     current_thread_id |-> n,
                     generated |-> n,
                     tid |-> NoThread, was_current |-> FALSE,
                     before |-> StoredThreads(n), rows_before |-> {},
                     read_failed |-> FALSE, titled |-> FALSE]

\* the current thread once thread t is deleted.  Gradio takes the last thread
\* of the reloaded list, Streamlit loads the first thread of the list it held
\* that is not t; both only when t was current
CurrentAfterDelete(front, current, t, listed, reloaded) ==
    IF front = "gradio"
    THEN IF current = t /\ reloaded # <<>>
         THEN Last(reloaded).thread_id
         ELSE current
    ELSE LET remaining_threads == FilterThread(listed, t)
         IN  IF t = current /\ remaining_threads # <<>>
             THEN remaining_threads[1].thread_id
             ELSE current

\* the record of an operation that starts now
Operation(op, t) ==
    [sidebar EXCEPT !.op = op, !.tid = t,
                    !.was_current = (t = sidebar.current_thread_id),
                    !.before = sidebar.file.entries,
                    !.rows_before = sidebar.rows,
                    !.read_failed = FALSE]

\* New Task: create_new_conversation (add_thread_id: load, append, save),
\* then the list is loaded again
SidebarNewTask ==
    /\ sidebar.op # "closed"
    /\ sidebar.generated + 1 \in SidebarIds
    /\ \E f1 \in ReadFaults(sidebar.file), f2 \in ReadFaults(sidebar.file) :
          LET new == sidebar.generated + 1
              listed == load_thread_ids(sidebar.file, f1)
              saved == save_thread_ids(sidebar.file,
                                       add_thread_id(listed.value, new, "Conversation"),
                                       "none")
              reloaded == load_thread_ids(saved, f2)
          IN  sidebar' = [Operation("new", new) EXCEPT
                             !.read_failed = (f1 # "none"),
                             !.generated = new,
                             !.file = saved,
                             !.thread_ids = reloaded.value,
                             !.current_thread_id = new]
    /\ UNCHANGED <<wfVars, pureVars, demuxVars, flights, regVars, rebuildVars, besidesSidebar>>

\* a conversation of the list is selected; Streamlit disables the button of
\* the current one
SidebarSelect ==
    /\ sidebar.op # "closed"
    /\ \E row \in 1..Len(sidebar.thread_ids) :
          LET t == sidebar.thread_ids[row].thread_id
          IN  /\ sidebar.front = "streamlit" => t # sidebar.current_thread_id
              /\ sidebar' = [Operation("select", t) EXCEPT !.current_thread_id = t]
    /\ UNCHANGED <<wfVars, pureVars, demuxVars, flights, regVars, rebuildVars, besidesSidebar>>

\* the first message of the current conversation: update_thread_title (load,
\* change the title, save)
SidebarTitle ==
    /\ sidebar.op # "closed"
    /\ \E f1 \in ReadFaults(sidebar.file) :
          LET t == sidebar.current_thread_id
              listed == load_thread_ids(sidebar.file, f1)
              saved == save_thread_ids(sidebar.file,
                                       update_thread_title(listed.value, t, "renamed"),
                                       "none")
          IN  sidebar' = [Operation("rename", t) EXCEPT
                             !.read_failed = (f1 # "none"),
                             !.titled = TRUE,
                             !.file = saved]
    /\ UNCHANGED <<wfVars, pureVars, demuxVars, flights, regVars, rebuildVars, besidesSidebar>>

\* the delete control of a conversation of the list: refused while the
\* session lists one thread, otherwise remove_thread_id (load, filter, save,
\* purge), the switch of the current thread and the reload of the list
SidebarDelete ==
    /\ sidebar.op # "closed"
    /\ \E row \in 1..Len(sidebar.thread_ids), fault \in DbFaults,
          f1 \in ReadFaults(sidebar.file), f2 \in ReadFaults(sidebar.file) :
          LET t == sidebar.thread_ids[row].thread_id
              listed == load_thread_ids(sidebar.file, f1)
              saved == save_thread_ids(sidebar.file, FilterThread(listed.value, t), "none")
              purged == delete_thread_from_database(sidebar.rows, t, fault)
              reloaded == load_thread_ids(saved, f2)
          IN  IF Len(sidebar.thread_ids) <= 1
              THEN sidebar' = Operation("refused", t)
              ELSE sidebar' = [Operation("delete", t) EXCEPT
                                  !.read_failed = (f1 # "none"),
                                  !.file = saved,
                                  !.rows = purged.rows,
                                  !.thread_ids = reloaded.value,
                                  !.current_thread_id =
                                      CurrentAfterDelete(sidebar.front,
                                                         sidebar.current_thread_id, t,
                                                         sidebar.thread_ids,
                                                         reloaded.value)]
    /\ UNCHANGED <<wfVars, pureVars, demuxVars, flights, regVars, rebuildVars, besidesSidebar>>

NextSidebar == SidebarNewTask \/ SidebarSelect \/ SidebarTitle \/ SidebarDelete

SpecSidebar == InitSidebar /\ [][NextSidebar]_vars

(***************************************************************************)
(* Properties.                                                             *)
(***************************************************************************)
NumHuman(ms) == Cardinality({i \in 1..Len(ms) : ms[i].type = "human"})

\* the content of the most recent human message of ms (ms has one)
LastHumanContent(ms) ==
    LET idx == {i \in 1..Len(ms) : ms[i].type = "human"}
    IN  ms[CHOOSE i \in idx : \A j \in idx : i >= j].content

\* C1: in a turn that the start router sent to planning_agent, the supervisor
\* is not entered before the turn has suspended at human_chat and a human
\* reply to that suspension has been received.
C1_SupervisorOnlyAfterReview ==
    (InGraph /\ Node = "supervisor" /\ hist[run.thread].planned)
        => hist[run.thread].replied

\* C2: once a turn suspended at human_chat has been resumed with the token
\* "approved", plan_approved is true and human_chat is not pending again:
\* the run goes on to the supervisor.
C2_ApprovedProceeds ==
    (run.phase # "idle" /\ run.consumed /\ run.human_input = TxtApproved
         /\ hist[run.thread].replied)
        => (Cp.plan_approved /\ Cp.next # "human_chat")

\* C3: route_from_planning returns human_chat for every state with at most
\* one human message, whatever its text.
C3_FirstMessageNeverApproves ==
    (fn = "route_from_planning" /\ result.done /\ NumHuman(arg.messages) <= 1)
        => result.value = "human_chat"

C3_Witness ==
    /\ fn = "route_from_planning" /\ result.done
    /\ arg.messages = <<HumanMessage(TxtLooksGood), AIMessage("planning_agent", TxtPlan)>>
    /\ result.value = "human_chat"

C4_Terms ==
    { <<"a", "p", "p", "r", "o", "v", "e", "d">>,
      <<"a", "p", "p", "r", "o", "v", "e">>,
      <<"l", "o", "o", "k", "s", " ", "g", "o", "o", "d">>,
      <<"s", "e", "n", "d", " ", "t", "o", " ", "s", "u", "p", "e", "r", "v", "i", "s", "o", "r">>,
      <<"p", "r", "o", "c", "e", "e", "d">>,
      <<"g", "o", " ", "a", "h", "e", "a", "d">>,
      <<"e", "x", "e", "c", "u", "t", "e">>,
      <<"o", "k">>,
      <<"g", "o", "o", "d">>,
      <<"y", "e", "s">> }

\* C4: for a state with two or more human messages, route_from_planning
\* returns supervisor exactly when the most recent human message contains,
\* case-insensitively, one of the ten approval terms, and human_chat otherwise.
C4_MostRecentDecides ==
    (fn = "route_from_planning" /\ result.done /\ NumHuman(arg.messages) >= 2)
        => LET approving == \E term \in C4_Terms :
                                Contains(term, LowerText(LastHumanContent(arg.messages)))
           IN  result.value = IF approving THEN "supervisor" ELSE "human_chat"

C4_Witness ==
    /\ fn = "route_from_planning" /\ result.done
    /\ arg.messages = <<HumanMessage(TxtBuildModel), HumanMessage(TxtLooksGood),
                        HumanMessage(TxtAlsoTox)>>
    /\ result.value = "human_chat"

\* what C5 says of human_chat_node resumed with h, where approved tells
\* whether h counts as the approval token
C5_Outcome(approved) ==
    IF approved
    THEN result.value.plan_approved
    ELSE /\ result.value.messages =
                Append(arg.state.messages, HumanMessage(arg.human_input))
         /\ ~result.value.plan_approved
         /\ result.next = "planning_agent"

\* C5 as stated: plan_approved is set only for the exact, case-sensitive
\* token "approved"; any other input is appended as a human message, leaves
\* plan_approved false and re-enters planning_agent.
C5_ExactToken ==
    (fn = "human_chat_node" /\ result.done)
        => C5_Outcome(arg.human_input = TxtApproved)

\* C5 amended: plan_approved is set exactly when the input, lower-cased and
\* stripped of surrounding whitespace, equals "approved" (the messages are
\* then left as they were); any other input is appended as a human message,
\* leaves plan_approved false and re-enters planning_agent.
C5_NormalisedToken ==
    (fn = "human_chat_node" /\ result.done)
        => LET approved == Strip(LowerText(arg.human_input)) = TxtApproved
           IN  /\ C5_Outcome(approved)
               /\ approved => result.value.messages = arg.state.messages

C5_Witness ==
    /\ fn = "human_chat_node" /\ result.done
    /\ arg.human_input = TxtApprovedCap
    /\ result.value.plan_approved

\* C6: when a Streamlit turn resumed with non-approving feedback stops with
\* human_chat pending again, the turn is reported as interrupted and the
\* session stays in the approval-pending state.
C6_RefinementStaysPending ==
    (ui = "streamlit" /\ Idle /\ run.kind = "resume" /\ hist[run.thread].replied
         /\ ~run.error
         /\ Strip(LowerText(run.human_input)) # TxtApproved
         /\ run.end_next = "human_chat" /\ ~env.state_read_fails)
        => (session.waiting_for_approval /\ Last(events) = CompleteEvent(TRUE))

\* C7: whenever the latest checkpoint of the Gradio session's current thread
\* has human_chat pending, the session is in the approval-pending state, so
\* that _run_user_message submits the next message as a resume.
C7_PendingMeansResume ==
    (ui = "gradio" /\ Idle /\ ~env.state_read_fails
         /\ checkpoints[session.current_thread_id].next = "human_chat")
        => session.waiting_for_approval

C8_Vocabulary ==
    { <<"i", "n", "t", "e", "r", "r", "u", "p", "t">>,
      <<"i", "n", "t", "e", "r", "r", "u", "p", "t", "e", "d">>,
      <<"h", "u", "m", "a", "n", " ", "i", "n", "p", "u", "t", " ", "r", "e", "q", "u", "i", "r", "e", "d">> }

HasComplete(evs) == \E i \in 1..Len(evs) : evs[i].kind = "complete"

\* C8: with interrupt checking enabled, a run whose execution raised an
\* exception ends with Complete{interrupted: true} and no error when the
\* message contains, case-insensitively, a word of the interrupt vocabulary;
\* otherwise the error reaches the caller and no Complete event is emitted.
C8_InterruptExceptions ==
    (Idle /\ run.kind # "none" /\ run.check /\ Truthy(run.exc))
        => IF \E kw \in C8_Vocabulary : Contains(kw, LowerText(run.exc))
           THEN ~run.error /\ Truthy(events) /\ Last(events) = CompleteEvent(TRUE)
           ELSE run.error /\ ~HasComplete(events)

C8_Witness ==
    /\ Idle /\ run.check /\ run.exc = ExcHumanInput
    /\ ~run.error /\ Truthy(events) /\ Last(events) = CompleteEvent(TRUE)

\* C9: a run that resumed a human_chat suspension, raised nothing and ended
\* with a Complete event reports interrupted = true exactly when the thread's
\* latest checkpoint has human_chat pending at the end of the run.
C9_InterruptedIffPending ==
    (Idle /\ run.kind # "none" /\ hist[run.thread].replied /\ ~Truthy(run.exc)
         /\ ~env.state_read_fails
         /\ HasComplete(events))
        => (Last(events).interrupted <=> run.end_next = "human_chat")

\* C10: when a chunk is fed to the demultiplexer a second time with the same
\* tracker, whatever was fed in between, the second call returns empty
\* progress and final outputs.
C10_RepeatedChunkIsSilent ==
    repeat => (emitted.progress_output = <<>> /\ emitted.final_output = <<>>)

C10_Witness ==
    /\ repeat /\ calls = 3
    /\ Truthy(probe_first.final_output)
    /\ emitted = NoOutput

\* C11: of two agent messages with different identifiers and the same text
\* and tool calls, delivered with one tracker, at most one is rendered.
C11_SameContentRenderedOnce ==
    \A i, j \in 1..Len(shown) :
        (/\ i < j
         /\ shown[i].type = "ai" /\ shown[j].type = "ai"
         /\ shown[i].id # shown[j].id
         /\ MessageContent(shown[i]) = MessageContent(shown[j]))
            => FALSE

\* C12: no message from a displayable agent with a new identifier and a
\* content that no rendered message had is passed over by deduplication.
C12_NewContentIsRendered == dropped = {}

\* C13: when a thread has just been loaded, on a switch or after a restart,
\* the tracker holds the identifier of every message of the thread's latest
\* checkpoint.
C13_LoadedTrackerCoversHistory ==
    loaded \in {"switch", "restart"}
        => \A i \in 1..Len(history) :
               _derive_message_id(history[i]) \in tracker.processed_message_ids

\* C14: at no time are two graph runs for the same thread in flight.
C14_SingleFlightPerThread ==
    \A a, b \in Sessions :
        (a # b /\ flights[a].phase = "running" /\ flights[b].phase = "running")
            => flights[a].thread # flights[b].thread

\* C15: when remove_thread_id(t) has returned, the checkpoint database holds
\* no row for t and the registry file does not list t (operations run one
\* after the other).
C15_DeletedThreadIsGone ==
    \A c \in RegistryClients :
        (clients[c].op = "remove" /\ clients[c].pc = "reload")
            => (clients[c].tid \notin rows /\ clients[c].tid \notin EntryIds(file))

C17_RegistryNeverEmpty == Len(file) >= 1

\* C18: once the registry operations of all sessions have finished, every
\* thread whose creation completed and whose deletion was never requested is
\* listed, and no thread whose deletion completed is listed.
C18_NoLostRegistryUpdate ==
    (\A c \in RegistryClients : clients[c].pc = "idle")
        => /\ \A t \in made \ unmaking : t \in EntryIds(file)
           /\ \A t \in unmade : t \notin EntryIds(file)

\* the text of the assistant entries of a reconstruction
AssistantText(formatted_messages) ==
    Concat([i \in 1..Len(formatted_messages) |->
                IF formatted_messages[i].role = "assistant"
                THEN formatted_messages[i].content
                ELSE <<>>])

\* C19: for a turn without interrupts, the demultiplexer's outputs put
\* together in the order they were streamed are, up to surrounding
\* whitespace, the reconstructor's output for the stored messages.
C19_RebuiltEqualsLive ==
    rebuilt.done => AssistantText(rebuilt.first) = Strip(live)

C21_TitleTruncation ==
    titling.titled_at > 0
        => LET prompt == titling.titled_from
           IN  /\ Len(prompt) <= 30 => titling.title = prompt
               /\ Len(prompt) > 30
                      => /\ Len(titling.title) = 33
                         /\ SubSeq(titling.title, 1, 30) = SubSeq(prompt, 1, 30)
                         /\ SubSeq(titling.title, 31, 33) = <<".", ".", ".">>

C21_Witness ==
    /\ titling.titled_at = 1
    /\ Len(titling.titled_from) = 45
    /\ Len(titling.title) = 33

\* C22: the title of a thread is never taken from a user message other than
\* the thread's first.
C22_TitleOnlyFromFirstMessage == titling.titled_at <= 1

Completes(yielded) == SelectSeq(yielded, LAMBDA e : e.type = "complete")

\* C24: every run has the recursion limit 100, and a run that used up its
\* budget ends in an error: no complete event is yielded for it, and the
\* session is not waiting for an approval afterwards.
C24_OverBudgetIsAnError ==
    /\ stream.phase # "none" => stream.recursion_limit = 100
    /\ (stream.phase = "done" /\ stream.exc = ExcRecursion)
           => /\ stream.ended = "raised"
              /\ Completes(stream.events) = <<>>
              /\ ~stream.waiting_for_approval

\* C25: stream_langgraph_events yields the dict updates in the order the graph
\* produced them and nothing else as chunk events, at most one complete
\* event, none but as its last event, and exactly one when it returns.
C25_EventsInOrderOneComplete ==
    stream.phase # "none" /\ stream.front = "gradio"
        => LET yielded == stream.events
               chunks == SelectSeq(yielded, LAMBDA e : e.type = "chunk")
               dicts == SelectSeq([i \in 1..Len(stream.produced) |->
                                      IF stream.produced[i] THEN i ELSE 0],
                                  LAMBDA n : n # 0)
           IN  /\ [i \in 1..Len(chunks) |-> chunks[i].n] = dicts
               /\ Len(Completes(yielded)) <= 1
               /\ \A i \in 1..Len(yielded) : yielded[i].type = "complete" => i = Len(yielded)
               /\ (stream.phase = "done" /\ stream.ended = "returned")
                      => Len(Completes(yielded)) = 1

\* the agent a rendered block is headed with: the text between the two bold
\* marks that open the block
BlockAgent(block) ==
    LET close == CHOOSE k \in 4..Len(block) :
                     block[k] = "**" /\ \A j \in 4..(k - 1) : block[j] # "**"
    IN  SubSeq(block, 4, close - 1)

FinalHeaders == {UpperText(NamePlanningAgent), UpperText(NameReportAgent)}

\* C26: the block a call of the demultiplexer renders is in one channel only:
\* in the final channel when it is headed PLANNING_AGENT or REPORT_AGENT, in
\* the progress channel under any other heading.
C26_BlockInOneChannel ==
    /\ emitted.final_output = <<>> \/ emitted.progress_output = <<>>
    /\ emitted.final_output # <<>> => BlockAgent(emitted.final_output) \in FinalHeaders
    /\ emitted.progress_output # <<>> => BlockAgent(emitted.progress_output) \notin FinalHeaders

C26_Witness ==
    /\ calls = 2
    /\ emitted.final_output # <<>>
    /\ emitted.progress_output = <<>>
    /\ BlockAgent(emitted.final_output) = UpperText(NameReportAgent)

\* C27: a failed read of the registry file gives the empty list and raises
\* nothing, and the start of a session then creates a conversation and makes
\* it current: after every start there is a current thread.
C27_StartupAlwaysHasThread ==
    startup.phase \notin {"none", "boot"} =>
        /\ startup.phase = "started"
        /\ ~startup.raised
        /\ startup.current_thread_id # NoThread
        /\ startup.first_fault # "none" =>
              /\ startup.first_value = <<>>
              /\ startup.created
              /\ startup.current_thread_id = startup.generated

C27_Witness ==
    /\ startup.phase = "started"
    /\ startup.first_fault # "none"
    /\ startup.listed_before > 0
    /\ startup.created
    /\ startup.current_thread_id = startup.generated

\* the place of thread t in a list that holds it
PlaceOf(thread_ids, t) == CHOOSE i \in 1..Len(thread_ids) : thread_ids[i].thread_id = t

NoDuplicates(thread_ids) ==
    \A i, j \in 1..Len(thread_ids) :
        thread_ids[i].thread_id = thread_ids[j].thread_id => i = j

FromPlanningToSupervisor(t) ==
    LET cp == checkpoints[t]
    IN  /\ cp.next = "supervisor"
        /\ cp.messages # <<>>
        /\ Last(cp.messages).name = "planning_agent"

\* C29: whenever the supervisor is entered from planning_agent, plan_approved
\* is true in the state of the thread.
C29_SupervisorEntryIsApproved ==
    \A t \in ThreadIds :
        FromPlanningToSupervisor(t) => checkpoints[t].plan_approved

\* C30: when the supervisor is entered from planning_agent in a turn whose
\* plan review has been answered, the latest planning_agent output is the
\* plan that the last plan_review payload showed.
C30_SupervisorRunsReviewedPlan ==
    \A t \in ThreadIds :
        (FromPlanningToSupervisor(t) /\ hist[t].replied)
            => planning_output(checkpoints[t]) = hist[t].reviewed

\* the block that the first call on the probed chunk rendered
ProbeBlock == probe_first.progress_output \o probe_first.final_output

HasProgressMarker(text) == \E pattern \in supervisor_patterns : Contains(pattern, text)

\* C31 as stated: a block whose text holds a progress marker is headed
\* SUPERVISOR, whatever the agent_name of its chunk.
C31_MarkerForcesSupervisor ==
    (probe_first.fed /\ ProbeBlock # <<>> /\ HasProgressMarker(ProbeBlock))
        => BlockAgent(ProbeBlock) = UpperText(NameSupervisor)

\* C31 amended: a block whose text holds a progress marker is headed
\* SUPERVISOR when the agent_name of its chunk, lower-cased, is neither
\* planning_agent nor report_agent, and keeps the name of its chunk when it is.
C31_MarkerForcesSupervisorOffFinal ==
    (probe_first.fed /\ ProbeBlock # <<>> /\ HasProgressMarker(ProbeBlock))
        => BlockAgent(ProbeBlock) =
               IF LowerText(probe.agent_name) \in {NamePlanningAgent, NameReportAgent}
               THEN UpperText(probe.agent_name)
               ELSE UpperText(NameSupervisor)

C31_Witness ==
    /\ probe_first.fed
    /\ probe.agent_name = NameResearchAgent
    /\ HasProgressMarker(probe_first.progress_output)
    /\ BlockAgent(probe_first.progress_output) = UpperText(NameSupervisor)

\* the messages of the probed chunk that come from the user
ProbeUserMessages ==
    {probe.messages[i] : i \in {j \in 1..Len(probe.messages) : probe.messages[j].type = "human"}}

HeaderEnds(text) ==
    {k \in 2..(Len(text) - 2) : text[k] = "**" /\ text[k + 1] = "\n" /\ text[k + 2] = "-"}

\* the name that closes at k
HeaderNameAt(text, k) ==
    LET open == CHOOSE j \in 1..(k - 1) :
                    text[j] = "**" /\ \A i \in (j + 1)..(k - 1) : text[i] # "**"
    IN  SubSeq(text, open + 1, k - 1)

\* the names of the headers of a text, in the order of the text
HeadersOf(text) ==
    LET ks == HeaderEnds(text)
        kth(n) == CHOOSE k \in ks : Cardinality({j \in ks : j < k}) = n - 1
    IN  [n \in 1..Cardinality(ks) |-> HeaderNameAt(text, kth(n))]

\* the first message of the run of non-user messages that holds message i
RunStart(msgs, i) ==
    CHOOSE j \in 1..i :
        /\ \A k \in j..i : msgs[k].type # "human"
        /\ j = 1 \/ msgs[j - 1].type = "human"

\* the agent of message i: its own name, and for a tool result the name of
\* the nearest message of its run before it that is not a tool result, or of
\* the first message of the run when there is none
AttributedAgent(msgs, i) ==
    LET before == {j \in RunStart(msgs, i)..(i - 1) : msgs[j].type # "tool"}
    IN  IF msgs[i].type # "tool" THEN msgs[i].name
        ELSE IF before # {} THEN msgs[CHOOSE j \in before : \A k \in before : k <= j].name
        ELSE msgs[RunStart(msgs, i)].name

\* message i opens a run of messages of one agent
OpensAgentRun(msgs, i) ==
    /\ msgs[i].type # "human"
    /\ \/ i = RunStart(msgs, i)
       \/ AttributedAgent(msgs, i) # AttributedAgent(msgs, i - 1)

ExpectedHeaders(msgs) ==
    LET opens == {i \in 1..Len(msgs) : OpensAgentRun(msgs, i)}
        nth(n) == CHOOSE i \in opens : Cardinality({j \in opens : j < i}) = n - 1
    IN  [n \in 1..Cardinality(opens) |-> UpperText(AttributedAgent(msgs, nth(n)))]

\* C33: the reconstruction of the stored messages carries one header for
\* each maximal run of consecutive non-user messages of one agent, in the
\* order of the messages, a tool result counting for the agent of the nearest
\* message before it in its run that is not a tool result.
C33_OneHeaderPerAgentRun ==
    rebuilt.done =>
        HeadersOf(Concat([i \in 1..Len(rebuilt.first) |->
                              IF rebuilt.first[i].role = "assistant"
                              THEN <<"\n">> \o rebuilt.first[i].content
                              ELSE <<>>]))
            = ExpectedHeaders(rebuilt.messages)

C33_Witness ==
    /\ rebuilt.done
    /\ Len(rebuilt.messages) = 5
    /\ rebuilt.messages[2].type = "tool"
    /\ rebuilt.messages[3].name = NameResearchAgent
    /\ rebuilt.messages[4].type = "tool"
    /\ rebuilt.messages[5].type = "human"
    /\ ExpectedHeaders(rebuilt.messages) = <<UpperText(NameSearch), UpperText(NameResearchAgent)>>

\* the messages of the probed chunk
ProbeMessages == {probe.messages[i] : i \in 1..Len(probe.messages)}

ProbeDisplayable == probe.is_dict /\ ~IsInternalNode(probe.agent_name)

\* C34: the identifier of a message is its own id when it has one; without
\* one, a tool result is identified by its tool_call_id, and without that by
\* a fingerprint of its tool name and content, the same for the same name
\* and content; any other message without an id has no identifier, and a
\* chunk of such messages is neither rendered nor recorded.  Every
\* identifier of a processed chunk is in the set of processed identifiers.
C34_IdentifierPriority ==
    /\ \A m \in ProbeMessages :
          /\ Truthy(m.id) => _derive_message_id(m) = m.id
          /\ (~Truthy(m.id) /\ m.type = "tool" /\ Truthy(m.tool_call_id))
                => _derive_message_id(m) = <<"tool_call:">> \o m.tool_call_id
          /\ (~Truthy(m.id) /\ m.type = "tool" /\ ~Truthy(m.tool_call_id))
                => /\ Head(_derive_message_id(m)) = "tool_signature:"
                   /\ _derive_message_id(m) =
                          _derive_message_id([m EXCEPT !.tool_calls = <<>>])
          /\ (~Truthy(m.id) /\ m.type # "tool") => _derive_message_id(m) = <<>>
    /\ (probe_first.fed /\ ProbeDisplayable) =>
          /\ \A m \in ProbeMessages :
                Truthy(_derive_message_id(m))
                    => _derive_message_id(m) \in tracker.processed_message_ids
          /\ (\A m \in ProbeMessages : ~Truthy(m.id) /\ m.type # "tool")
                => /\ ProbeBlock = <<>>
                   /\ calls = 1 => tracker = EmptyTracker

C34_Witness ==
    /\ probe_first.fed
    /\ calls = 1
    /\ probe.messages = <<MsgNoId>>
    /\ ProbeBlock = <<>>
    /\ tracker = EmptyTracker

\* the text of the latest user message of a state, empty when there is none
LatestUserText(ms) == IF NumHuman(ms) = 0 THEN <<>> ELSE LastHumanContent(ms)

\* C35: a turn starts at planning_agent when the state holds no user text;
\* otherwise it starts at the supervisor when the classifier's answer,
\* trimmed and in lower case, begins with "skip", and at planning_agent for
\* every other answer.  The text classified is that of the latest user
\* message.
C35_StartRouting ==
    (fn = "route_from_start" /\ result.done) =>
        LET text == LatestUserText(arg.state.messages)
            answer == LowerText(Strip(arg.out))
            skips == Len(answer) >= 4 /\ SubSeq(answer, 1, 4) = <<"s", "k", "i", "p">>
        IN  /\ result.classified = text
            /\ result.next = IF text = <<>> THEN "planning_agent"
                             ELSE IF skips THEN "supervisor"
                             ELSE "planning_agent"

C35_Witness ==
    /\ fn = "route_from_start" /\ result.done
    /\ Len(arg.state.messages) = 3
    /\ arg.state.messages[1].type = "human"
    /\ arg.state.messages[3].type = "ai"
    /\ result.classified = TxtAlsoTox
    /\ arg.out = <<" ", "S", "k", "i", "p", ".">>
    /\ result.next = "supervisor"

\* C36: report_agent is the last node of its run: no node's update follows
\* the update of report_agent, and when report_agent has run nothing is
\* pending in the thread at the end of the run.
C36_ReportIsTerminal ==
    /\ \A i \in 1..Len(events) :
          (events[i].kind = "chunk" /\ events[i].agent = "report_agent")
              => \A j \in (i + 1)..Len(events) : events[j].kind # "chunk"
    /\ (run.phase # "idle" /\ events # <<>> /\ Last(events).kind = "chunk"
            /\ Last(events).agent = "report_agent")
          => Cp.next = "none"

C36_Witness ==
    /\ Len(events) >= 3
    /\ events[Len(events) - 1].kind = "chunk"
    /\ events[Len(events) - 1].agent = "report_agent"
    /\ events[Len(events) - 2].agent = "supervisor"
    /\ Last(events).kind = "complete"
    /\ ~Last(events).interrupted

PlanningRuns(evs) ==
    Cardinality({i \in 1..Len(evs) : evs[i].kind = "chunk" /\ evs[i].agent = "planning_agent"})

C38_CurrentThreadIsListed ==
    (sidebar.op # "closed" /\ ~sidebar.titled) =>
        /\ sidebar.current_thread_id \in EntryIds(sidebar.file.entries)
        /\ (sidebar.op = "delete" /\ sidebar.was_current) =>
               sidebar.current_thread_id # sidebar.tid

\* C39: remove_thread_id(t) leaves the registry records of every other
\* thread, their order included, and the checkpoint rows of every other
\* thread as they were.
C39_DeleteTouchesOnlyItsThread ==
    sidebar.op = "delete" =>
        /\ FilterThread(sidebar.file.entries, sidebar.tid)
               = FilterThread(sidebar.before, sidebar.tid)
        /\ sidebar.rows \ {sidebar.tid} = sidebar.rows_before \ {sidebar.tid}

\* C40: when the read inside a create, a rename or a delete has failed and
\* load_thread_ids has returned the empty list, the file written by the
\* operation still lists every thread that was stored before, the deleted
\* one aside.
C40_FailedReadLosesNoThread ==
    (sidebar.op \in {"new", "rename", "delete"} /\ sidebar.read_failed) =>
        \A i \in 1..Len(sidebar.before) :
            \/ sidebar.op = "delete" /\ sidebar.before[i].thread_id = sidebar.tid
            \/ sidebar.before[i].thread_id \in EntryIds(sidebar.file.entries)

====
